---- MODULE Spec2Model ----
(***************************************************************************)
(* scg-config: the configuration service (config.Config: provider, getter  *)
(* snapshot, loaders, Reload, Close), the file loader (loader/file), and   *)
(* the path resolvers of the legacy package (traverseNestedMap).           *)
(*                                                                         *)
(* Strings are sequences of one-character strings, so that Split, ToLower, *)
(* Atoi and the extension test are computed the way the code computes      *)
(* them.  A settings tree is a tagged value [t, v]:                        *)
(*   t = "nil"                      Go nil                                 *)
(*   t = "int"  v an integer        t = "str"  v a string                  *)
(*   t = "bool" v a boolean                                                *)
(*   t = "map"  v a function from strings to trees (map[string]any)        *)
(*   t = "seq"  v a sequence of trees ([]any)                              *)
(***************************************************************************)
EXTENDS Integers, Sequences, FiniteSets, TLC

\* ------------------------------------------------------------------------
\* Bounds of the model
\* ------------------------------------------------------------------------
MaxOps == 4
MaxEdits == 1

\* ------------------------------------------------------------------------
\* Strings
\* ------------------------------------------------------------------------
UpperLetters == <<"A","B","C","D","E","F","G","H","I","J","K","L","M",
                  "N","O","P","Q","R","S","T","U","V","W","X","Y","Z">>
LowerLetters == <<"a","b","c","d","e","f","g","h","i","j","k","l","m",
                  "n","o","p","q","r","s","t","u","v","w","x","y","z">>
Digits == <<"0","1","2","3","4","5","6","7","8","9">>

\* the lower-case letter of every upper-case letter
LowerOf ==
    [c \in {UpperLetters[i] : i \in 1..Len(UpperLetters)} |->
        LowerLetters[CHOOSE i \in 1..Len(UpperLetters) : UpperLetters[i] = c]]

\* strings.ToLower, one character
ToLowerChar(c) == IF c \in DOMAIN LowerOf THEN LowerOf[c] ELSE c

\* strings.ToLower
ToLower(s) == [i \in 1..Len(s) |-> ToLowerChar(s[i])]

\* strings.Split(s, sep) for a one-character separator: always at least one
\* segment; an empty string gives one empty segment.
RECURSIVE Split(_, _)
Split(s, sep) ==
    IF \A i \in 1..Len(s) : s[i] # sep
    THEN <<s>>
    ELSE LET i == CHOOSE i \in 1..Len(s) :
                    s[i] = sep /\ \A j \in 1..(i-1) : s[j] # sep
         IN  <<SubSeq(s, 1, i-1)>> \o Split(SubSeq(s, i+1, Len(s)), sep)

\* strings.Join(parts, sep)
RECURSIVE Join(_, _)
Join(parts, sep) ==
    IF Len(parts) = 0 THEN <<>>
    ELSE IF Len(parts) = 1 THEN parts[1]
    ELSE parts[1] \o <<sep>> \o Join(Tail(parts), sep)

DigitOf == [c \in {Digits[i] : i \in 1..Len(Digits)} |->
               (CHOOSE i \in 1..Len(Digits) : Digits[i] = c) - 1]
IsDigit(c) == c \in DOMAIN DigitOf
DigitVal(c) == DigitOf[c]

RECURSIVE DecVal(_)
DecVal(ds) ==
    IF Len(ds) = 0 THEN 0
    ELSE 10 * DecVal(SubSeq(ds, 1, Len(ds)-1)) + DigitVal(ds[Len(ds)])

\* strconv.Atoi: an optional sign, then one or more decimal digits; anything
\* else is an error (the segments of the model are far shorter than the 19
\* digits at which Atoi reports a range error).  The result is [ok, n].
Atoi(s) ==
    LET signed == Len(s) > 0 /\ s[1] \in {"+", "-"}
        ds     == IF signed THEN Tail(s) ELSE s
    IN  IF Len(ds) = 0 \/ (\E i \in 1..Len(ds) : ~IsDigit(ds[i]))
        THEN [ok |-> FALSE, n |-> 0]
        ELSE [ok |-> TRUE,
              n  |-> IF signed /\ s[1] = "-" THEN 0 - DecVal(ds) ELSE DecVal(ds)]

\* ------------------------------------------------------------------------
\* Settings trees
\* ------------------------------------------------------------------------
Nil      == [t |-> "nil", v |-> 0]
IntV(n)  == [t |-> "int", v |-> n]
StrV(s)  == [t |-> "str", v |-> s]
MapV(f)  == [t |-> "map", v |-> f]
SeqV(s)  == [t |-> "seq", v |-> s]
EmptyMap == MapV(<<>>)

IsMap(x) == x.t = "map"
IsSeq(x) == x.t = "seq"

\* v[k] of a Go map: the zero value (nil) when the key is absent
MapGet(m, k) == IF k \in DOMAIN m.v THEN m.v[k] ELSE Nil

\* m[k] = val
MapPut(m, k, val) ==
    MapV([x \in (DOMAIN m.v) \cup {k} |-> IF x = k THEN val ELSE m.v[x]])

\* ------------------------------------------------------------------------
\* The provider: spf13/viper behind provider/viper.ConfigProvider.  Its
\* state is the config file name, the tree read from files (config) and the
\* tree written by Set (override).
\* ------------------------------------------------------------------------

\* viper insensitiviseMap / copyAndInsensitiviseMap: keys lower-cased at
\* every depth, inside sequences too.  The trees of the model hold no two
\* keys of one map that collide when lower-cased.
RECURSIVE InsensitiviseMap(_)
InsensitiviseMap(x) ==
    IF IsMap(x)
    THEN MapV([k \in {ToLower(q) : q \in DOMAIN x.v} |->
                 InsensitiviseMap(x.v[CHOOSE q \in DOMAIN x.v : ToLower(q) = k])])
    ELSE IF IsSeq(x)
    THEN SeqV([i \in 1..Len(x.v) |-> InsensitiviseMap(x.v[i])])
    ELSE x

\* viper toCaseInsensitiveValue / copyAndInsensitiviseMap, applied by Set to
\* the value: the keys of the map and of the maps nested directly in maps are
\* lower-cased; a sequence is stored as it is
RECURSIVE CopyAndInsensitiviseMap(_)
CopyAndInsensitiviseMap(x) ==
    IF IsMap(x)
    THEN MapV([k \in {ToLower(q) : q \in DOMAIN x.v} |->
                 CopyAndInsensitiviseMap(x.v[CHOOSE q \in DOMAIN x.v : ToLower(q) = k])])
    ELSE x

\* viper flattenAndMergeMap: the paths of the leaves (every value that is not
\* a map), each path a sequence of segments
RECURSIVE FlattenKeys(_)
FlattenKeys(m) ==
    UNION { IF IsMap(m.v[k])
            THEN { <<k>> \o p : p \in FlattenKeys(m.v[k]) }
            ELSE { <<k>> } : k \in DOMAIN m.v }

\* viper searchMap
RECURSIVE SearchMap(_, _)
SearchMap(source, path) ==
    IF Len(path) = 0 THEN source
    ELSE IF path[1] \notin DOMAIN source.v THEN Nil
    ELSE LET next == source.v[path[1]]
         IN  IF Len(path) = 1 THEN next
             ELSE IF IsMap(next) THEN SearchMap(next, Tail(path))
             ELSE Nil

\* viper isPathShadowedInDeepMap: a proper prefix of the path holds a value
\* that is neither nil nor a map
IsPathShadowedInDeepMap(path, m) ==
    \E i \in 1..(Len(path) - 1) :
        LET parentVal == SearchMap(m, SubSeq(path, 1, i))
        IN  parentVal # Nil /\ ~IsMap(parentVal)

\* viper find, for the two layers of the model: override first, then config
ViperFind(override, config, path) ==
    LET o == SearchMap(override, path)
    IN  IF o # Nil THEN o
        ELSE IF IsPathShadowedInDeepMap(path, override) THEN Nil
        ELSE SearchMap(config, path)

\* viper deepSearch followed by the assignment of the last key: every
\* intermediate value that is not a map is replaced by a fresh map
RECURSIVE DeepSet(_, _, _)
DeepSet(m, path, val) ==
    IF Len(path) = 1 THEN MapPut(m, path[1], val)
    ELSE LET sub == IF path[1] \in DOMAIN m.v /\ IsMap(m.v[path[1]])
                    THEN m.v[path[1]] ELSE EmptyMap
         IN  MapPut(m, path[1], DeepSet(sub, Tail(path), val))

\* viper AllSettings: for every key of AllKeys, Get(key); nil values are
\* skipped; the value is stored at its path in a fresh nested map
RECURSIVE AllSettingsFold(_, _, _, _)
AllSettingsFold(keys, override, config, m) ==
    IF keys = {} THEN m
    ELSE LET k     == CHOOSE k \in keys : TRUE
             value == ViperFind(override, config, k)
         IN  AllSettingsFold(keys \ {k}, override, config,
                             IF value = Nil THEN m ELSE DeepSet(m, k, value))

AllSettings(p) ==
    AllSettingsFold(FlattenKeys(p.override) \cup FlattenKeys(p.config),
                    p.override, p.config, EmptyMap)

\* viper Set: the key is lower-cased and split on ".", the value made
\* case-insensitive, and stored in the override layer
ViperSet(p, key, value) ==
    [p EXCEPT !.override =
        DeepSet(p.override, Split(ToLower(key), "."), CopyAndInsensitiviseMap(value))]

\* viper mergeMaps(src, tgt): an absent key is added; a target map is merged
\* with a source map and keeps its value when the source is not a map ("could
\* not cast", the pair is skipped); any other target value is replaced
RECURSIVE MergeMaps(_, _)
MergeMaps(src, tgt) ==
    MapV([k \in (DOMAIN src.v) \cup (DOMAIN tgt.v) |->
            IF k \notin DOMAIN src.v THEN tgt.v[k]
            ELSE IF k \notin DOMAIN tgt.v THEN src.v[k]
            ELSE IF IsMap(tgt.v[k])
                 THEN IF IsMap(src.v[k]) THEN MergeMaps(src.v[k], tgt.v[k])
                      ELSE tgt.v[k]
                 ELSE src.v[k]])

\* viper MergeConfigMap
MergeConfigMap(p, cfg) ==
    [p EXCEPT !.config = MergeMaps(InsensitiviseMap(cfg), p.config)]

\* ------------------------------------------------------------------------
\* The file system: one directory, ConfDir, and the files it may hold.  A
\* file's content is the tree its parser yields, Invalid when the file does
\* not parse, Absent when the file does not exist (or cannot be read).
\* ------------------------------------------------------------------------
Absent  == [t |-> "absent", v |-> 0]
Invalid == [t |-> "invalid", v |-> 0]

ConfDir == <<"d">>
FileA == <<"a", ".", "y", "a", "m", "l">>
FileB == <<"b", ".", "j", "s", "o", "n">>
FileC == <<"c", ".", "t", "x", "t">>
DirFiles == {FileA, FileB, FileC}

\* the contents a file takes in the model
ContentA1 == MapV((<<"n">> :> StrV(<<"x">>)) @@
                  (<<"S">> :> MapV(<<"p">> :> IntV(1))))
ContentA2 == MapV((<<"n">> :> StrV(<<"y">>)) @@
                  (<<"S">> :> MapV(<<"p">> :> IntV(1))))
ContentB1 == MapV((<<"n">> :> StrV(<<"w">>)) @@
                  (<<"s">> :> MapV(<<"h">> :> StrV(<<"z">>))) @@
                  (<<"l">> :> SeqV(<<IntV(10), IntV(20), IntV(30)>>)))
ContentB2 == MapV((<<"n">> :> StrV(<<"w">>)) @@
                  (<<"s">> :> MapV(<<"h">> :> StrV(<<"q">>))) @@
                  (<<"l">> :> SeqV(<<IntV(10), IntV(20), IntV(30)>>)))
ContentC1 == MapV(<<"r">> :> IntV(1))

InitialFs == (FileA :> ContentA1) @@ (FileB :> ContentB1) @@ (FileC :> ContentC1)

\* what an external edit may leave in a file
EditsOf(name) ==
    IF name = FileA THEN {ContentA1, ContentA2, Absent}
    ELSE IF name = FileB THEN {ContentB1, ContentB2}
    ELSE {}

\* filepath.Join(dir, name)
PathJoin(dir, name) == dir \o <<"/">> \o name

\* the content at a path: the path names a file of ConfDir or nothing
FileContent(files, path) ==
    IF \E name \in DOMAIN files : PathJoin(ConfDir, name) = path
    THEN files[CHOOSE name \in DOMAIN files : PathJoin(ConfDir, name) = path]
    ELSE Absent

\* filepath.Ext: the suffix from the last dot of the last path element
Ext(path) ==
    LET dots == { i \in 1..Len(path) :
                    path[i] = "." /\ \A j \in i..Len(path) : path[j] # "/" }
    IN  IF dots = {} THEN <<>>
        ELSE SubSeq(path, CHOOSE i \in dots : \A j \in dots : j <= i, Len(path))

\* filename[:len(filename)-len(ext)]
BaseNameOf(name) == SubSeq(name, 1, Len(name) - Len(Ext(name)))

\* viper SupportedExts (those the model's file names can meet)
ViperSupportedExts ==
    { <<"j","s","o","n">>, <<"t","o","m","l">>, <<"y","a","m","l">>,
      <<"y","m","l">>, <<"i","n","i">>, <<"e","n","v">>, <<"h","c","l">> }

\* viper getConfigType for a config file set by name
GetConfigType(path) ==
    IF Len(Ext(path)) > 1 THEN Tail(Ext(path)) ELSE <<>>

NoFile == <<>>
NewConfigProvider == [configFile |-> NoFile, config |-> EmptyMap, override |-> EmptyMap]

\* provider.SetConfigFile
SetConfigFile(p, path) == [p EXCEPT !.configFile = path]

\* provider.ReadInConfig (viper ReadInConfig): no config file set and none to
\* be found, an unsupported type, an unreadable or an unparsable file are
\* errors and leave the provider as it was; otherwise the tree read REPLACES
\* the config layer.  The result is [err, p].
ReadInConfig(p, files) ==
    LET content == FileContent(files, p.configFile)
    IN  IF p.configFile = NoFile
           \/ GetConfigType(p.configFile) \notin ViperSupportedExts
           \/ content = Absent \/ content = Invalid
        THEN [err |-> TRUE, p |-> p]
        ELSE [err |-> FALSE, p |-> [p EXCEPT !.config = InsensitiviseMap(content)]]

\* ------------------------------------------------------------------------
\* loader/file.Loader
\* ------------------------------------------------------------------------

\* Loader.LoadFromFile: SetConfigFile, then ReadInConfig
LoadFromFile(p, files, configFile) ==
    ReadInConfig(SetConfigFile(p, configFile), files)

\* contract.ExtYAML, ExtYML, ExtJSON
SupportedConfigExts ==
    { <<".","y","a","m","l">>, <<".","y","m","l">>, <<".","j","s","o","n">> }

\* utils.IsSupportedConfigFile
IsSupportedConfigFile(name) == Ext(name) \in SupportedConfigExts

\* byte-wise order of the characters of file names
CharOrder == <<".", "/">> \o Digits \o UpperLetters \o <<"_">> \o LowerLetters
Ord(c) == CHOOSE i \in 1..Len(CharOrder) : CharOrder[i] = c

RECURSIVE StrLess(_, _)
StrLess(a, b) ==
    IF Len(b) = 0 THEN FALSE
    ELSE IF Len(a) = 0 THEN TRUE
    ELSE IF a[1] # b[1] THEN Ord(a[1]) < Ord(b[1])
    ELSE StrLess(Tail(a), Tail(b))

\* os.ReadDir: the entries sorted by file name
RECURSIVE SortedNames(_)
SortedNames(names) ==
    IF names = {} THEN <<>>
    ELSE LET first == CHOOSE a \in names : \A b \in names \ {a} : StrLess(a, b)
         IN  <<first>> \o SortedNames(names \ {first})

ReadDir(files, dir) ==
    SortedNames({ name \in DOMAIN files : files[name] # Absent })

\* Loader.mergeConfigFile: a temporary provider reads the file, and its
\* AllSettings are merged into the provider with MergeConfigMap
MergeConfigFile(p, files, configFile) ==
    LET temp == ReadInConfig(SetConfigFile(NewConfigProvider, configFile), files)
    IN  IF temp.err THEN [err |-> TRUE, p |-> p]
        ELSE [err |-> FALSE, p |-> MergeConfigMap(p, AllSettings(temp.p))]

\* the loop of Loader.LoadFromDirectory over the supported files: the first
\* is read with SetConfigFile + ReadInConfig, the others are merged; the
\* first error ends the load and is returned with the path of the file and
\* whether it was the first file
RECURSIVE LoadConfigFiles(_, _, _, _, _)
LoadConfigFiles(p, files, dir, configFiles, isFirst) ==
    IF Len(configFiles) = 0 THEN [err |-> FALSE, p |-> p]
    ELSE LET path == PathJoin(dir, configFiles[1])
             r    == IF isFirst
                     THEN ReadInConfig(SetConfigFile(p, path), files)
                     ELSE MergeConfigFile(p, files, path)
         IN  IF r.err THEN [err |-> TRUE, p |-> r.p, path |-> path, first |-> isFirst]
             ELSE LoadConfigFiles(r.p, files, dir, Tail(configFiles), FALSE)

\* a directory load that takes every entry for a config file
LoadFromDirectoryUnfiltered(p, files, dir) ==
    LoadConfigFiles(p, files, dir, ReadDir(files, dir), TRUE)

\* Loader.LoadFromDirectory
LoadFromDirectory(p, files, dir) ==
    LoadConfigFiles(p, files, dir,
                    SelectSeq(ReadDir(files, dir), IsSupportedConfigFile), TRUE)

\* ------------------------------------------------------------------------
\* loader/env.Loader
\* ------------------------------------------------------------------------

\* the process environment of the model: APP_S_P=8080, FOO_BAR=baz
EnvAppSP  == [name |-> <<"A","P","P","_","S","_","P">>, value |-> <<"8","0","8","0">>]
EnvFooBar == [name |-> <<"F","O","O","_","B","A","R">>, value |-> <<"b","a","z">>]
Environ == <<EnvAppSP, EnvFooBar>>

EnvPrefixes == { <<"A","P","P">>, <<>> }

HasPrefix(s, pre) == Len(s) >= Len(pre) /\ SubSeq(s, 1, Len(pre)) = pre

\* the key of an environment variable: prefix and "_" stripped, "_" to ".",
\* lower-cased
EnvKey(name, prefix) ==
    LET rest == IF prefix = <<>> THEN name
                ELSE SubSeq(name, Len(prefix) + 2, Len(name))
    IN  ToLower([i \in 1..Len(rest) |-> IF rest[i] = "_" THEN "." ELSE rest[i]])

\* a load that strips the length of the prefix from every variable, whether
\* it carries the prefix or not
RECURSIVE LoadEnvVarsIgnoringPrefix(_, _, _)
LoadEnvVarsIgnoringPrefix(p, vars, prefix) ==
    IF Len(vars) = 0 THEN p
    ELSE LoadEnvVarsIgnoringPrefix(
             ViperSet(p, EnvKey(vars[1].name, prefix), StrV(vars[1].value)),
             Tail(vars), prefix)

\* EnvLoader.LoadFromEnv: every variable that carries the prefix (every
\* variable when the prefix is empty) is written to the provider with Set
RECURSIVE LoadEnvVars(_, _, _)
LoadEnvVars(p, vars, prefix) ==
    IF Len(vars) = 0 THEN p
    ELSE LET e == vars[1]
             matches == prefix = <<>> \/ HasPrefix(e.name, prefix \o <<"_">>)
         IN  LoadEnvVars(IF matches
                         THEN ViperSet(p, EnvKey(e.name, prefix), StrV(e.value))
                         ELSE p,
                         Tail(vars), prefix)

LoadFromEnv(p, prefix) == LoadEnvVars(p, Environ, prefix)

\* ------------------------------------------------------------------------
\* config.Getter: an immutable snapshot of the settings and the typed read
\* surface over it
\* ------------------------------------------------------------------------
NoGetter == Nil

\* NewGetter(settings): the snapshot is the settings tree as it is now
NewGetter(settings) == settings

\* a key of the map that equals the segment ignoring case
FoldMatches(m, seg) == { k \in DOMAIN m.v : ToLower(k) = ToLower(seg) }

\* one step of the path resolver at a node
ResolveStep(node, seg) ==
    IF IsMap(node)
    THEN IF seg \in DOMAIN node.v THEN node.v[seg]
         ELSE IF FoldMatches(node, seg) # {}
              THEN node.v[CHOOSE k \in FoldMatches(node, seg) : TRUE]
              ELSE Nil
    ELSE IF IsSeq(node)
    THEN LET a == Atoi(seg)
         IN  IF a.ok /\ a.n >= 0 /\ a.n < Len(node.v) THEN node.v[a.n + 1] ELSE Nil
    ELSE Nil

RECURSIVE ResolveSegs(_, _)
ResolveSegs(node, segs) ==
    IF Len(segs) = 0 THEN node
    ELSE LET next == ResolveStep(node, segs[1])
         IN  IF next = Nil THEN Nil ELSE ResolveSegs(next, Tail(segs))

\* the path resolver: the node at a dot-separated key, Nil when not found
Resolve(tree, key) ==
    IF tree = NoGetter THEN Nil ELSE ResolveSegs(tree, Split(key, "."))

KeyTypes == {"int", "string", "bool", "[]string", "map"}

\* a conversion that accepts a value only when it already has the type
ConvertToNoCoercion(x, typ) ==
    IF typ = "int" THEN (IF x.t = "int" THEN x ELSE Nil)
    ELSE IF typ = "string" THEN (IF x.t = "str" THEN x ELSE Nil)
    ELSE IF typ = "bool" THEN (IF x.t = "bool" THEN x ELSE Nil)
    ELSE IF typ = "map" THEN (IF x.t = "map" THEN x ELSE Nil)
    ELSE Nil

\* the conversion of a found value to the requested type: the value itself
\* when it has the type, a numeric string coerced to an int, Nil otherwise
ConvertTo(x, typ) ==
    IF typ = "int"
    THEN IF x.t = "int" THEN x
         ELSE IF x.t = "str" /\ Atoi(x.v).ok THEN IntV(Atoi(x.v).n)
         ELSE Nil
    ELSE IF typ = "string" THEN (IF x.t = "str" THEN x ELSE Nil)
    ELSE IF typ = "bool" THEN (IF x.t = "bool" THEN x ELSE Nil)
    ELSE IF typ = "map" THEN (IF x.t = "map" THEN x ELSE Nil)
    ELSE IF typ = "[]string"
    THEN (IF x.t = "seq" /\ \A i \in 1..Len(x.v) : x.v[i].t = "str" THEN x ELSE Nil)
    ELSE Nil

\* Getter.Get
GetterGet(g, key, typ) ==
    LET x == Resolve(g, key)
    IN  IF x = Nil THEN [val |-> Nil, err |-> "ErrKeyNotFound"]
        ELSE IF typ \notin KeyTypes THEN [val |-> Nil, err |-> "ErrUnknownType"]
        ELSE IF ConvertTo(x, typ) = Nil THEN [val |-> Nil, err |-> "ErrWrongType"]
        ELSE [val |-> ConvertTo(x, typ), err |-> "nil"]

\* Getter.HasKey
GetterHasKey(g, key) == Resolve(g, key) # Nil

\* ------------------------------------------------------------------------
\* State
\* ------------------------------------------------------------------------
VARIABLES
    files,        \* the file system: file name of ConfDir -> content
    provider,     \* Config.provider / Loader.provider: [configFile, config, override]
    constructed,  \* config.New has returned
    getter,       \* Config.getter: the snapshot, NoGetter before New
    closed,       \* Config.done is closed
    panicked,     \* a call has panicked
    hist,         \* the last two calls, oldest first
    nops,         \* calls made so far
    nedits,       \* external edits made so far
    loaded,       \* every probe key that was ever set or loaded into the provider
    loadedFiles,  \* every file successfully read into the provider
    dirEnvStage,  \* how far the calls LoadFromDirectory, LoadFromEnv, Reload
                  \* have been made one right after the other (0 to 3)
    pc,           \* where each goroutine stands in the method it runs
    mu,           \* Config.mu: "free" or the goroutine that holds it
    rd,           \* the locals of the goroutine in Get: [key, typ, g, out]
    newG,         \* the getter Reload has built and not yet stored
    watchedFiles, \* Config.watchedFiles
    nruns,        \* how many methods each goroutine has started
    tIn,          \* the arguments of a call made on its own, such as those of
                  \* traverseNestedMap: [settings, path]
    tOut,         \* what the call returned: [fn, res]
    watcher,      \* the legacy Config.watcher with the callback its event
                  \* goroutine holds: NoWatcher or [callback, paths]
    legacyWatchedFiles, \* the legacy Config.watchedFiles
    events,       \* watcher.Events: the names written to and not yet handled
    ran,          \* what the event goroutine did last: [name, reloaded, called]
    passed,       \* path -> the callbacks of the successful watch calls for it
    attached      \* the paths the watcher of config.Config has attached to

mainVars == <<files, provider, constructed, getter, closed, panicked, hist,
              nops, nedits, loaded, loadedFiles, dirEnvStage>>
concVars == <<pc, mu, rd, newG, watchedFiles, nruns>>
walkVars == <<tIn, tOut>>
watchVars == <<watcher, legacyWatchedFiles, events, ran, passed, attached>>

vars == <<files, provider, constructed, getter, closed, panicked, hist, nops,
          nedits, loaded, loadedFiles, dirEnvStage, concVars, walkVars, watchVars>>

\* the goroutines of the concurrent runs, and their state when none runs
Threads == {"get", "reload", "watch"}
NoRead == [key |-> <<>>, typ |-> "", g |-> Nil, out |-> Nil]
NoWalk == Nil
ConcIdle ==
    /\ pc = [t \in Threads |-> "idle"]
    /\ mu = "free"
    /\ rd = NoRead
    /\ newG = Nil
    /\ watchedFiles = {}
    /\ nruns = [t \in Threads |-> 0]
WalkIdle == tIn = NoWalk /\ tOut = NoWalk
NoWatcher == Nil
NoCallback == "nil"
WatchIdle ==
    /\ watcher = NoWatcher
    /\ legacyWatchedFiles = {}
    /\ events = <<>>
    /\ ran = Nil
    /\ passed = <<>>
    /\ attached = {}

\* ------------------------------------------------------------------------
\* The keys and values the calls of the model are made with
\* ------------------------------------------------------------------------
KeyN  == <<"n">>
KeySp == <<"S", ".", "p">>
KeyS  == <<"s">>
SetCalls ==
    { [key |-> KeyN,  value |-> IntV(7)],
      [key |-> KeySp, value |-> StrV(<<"4", "2">>)],
      [key |-> KeyS,  value |-> MapV(<<"Q">> :> IntV(1))] }

LoadPaths == {PathJoin(ConfDir, name) : name \in DirFiles}

\* the keys Get and Has are probed with
ProbeKeys ==
    { <<"n">>, <<"N">>, <<"s">>, <<"s",".","p">>, <<"S",".","P">>,
      <<"s",".","h">>, <<"s",".","p",".","q">>, <<"n",".","q">>,
      <<"l">>, <<"l",".","1">>, <<"l",".","5">>, <<"l",".","x">>,
      <<"r">>, <<"z">>, <<"a",".","n">>, <<"b",".","n">>, <<"a">>, <<"b">>,
      <<"a","p","p",".","s",".","p">>, <<"f","o","o",".","b","a","r">> }

\* the node at a lower-cased key of a source tree, by exact steps only
RECURSIVE WalkExact(_, _)
WalkExact(node, segs) ==
    IF Len(segs) = 0 THEN node
    ELSE IF IsMap(node) /\ segs[1] \in DOMAIN node.v
    THEN WalkExact(node.v[segs[1]], Tail(segs))
    ELSE IF IsSeq(node) /\ Atoi(segs[1]).ok /\ Atoi(segs[1]).n >= 0
            /\ Atoi(segs[1]).n < Len(node.v)
    THEN WalkExact(node.v[Atoi(segs[1]).n + 1], Tail(segs))
    ELSE Nil

\* the segments of every probe key, lower-cased
ProbeSegs == [k \in ProbeKeys |-> Split(ToLower(k), ".")]
ProbeLower == [k \in ProbeKeys |-> ToLower(k)]

\* the probe keys present in a layer of the provider
KeysPresent(p) ==
    { ProbeLower[k] : k \in { k \in ProbeKeys :
          \/ WalkExact(p.override, ProbeSegs[k]) # Nil
          \/ WalkExact(p.config, ProbeSegs[k]) # Nil } }

Call(op, arg, val, old, err) ==
    [op |-> op, arg |-> arg, val |-> val, old |-> old, err |-> err]

Push(h, c) == IF Len(h) < 2 THEN Append(h, c) ELSE Append(Tail(h), c)

Last(h) == h[Len(h)]

\* ------------------------------------------------------------------------
\* config.Config
\* ------------------------------------------------------------------------

\* Config.Get that answers a missing key with a zero value and no error
ConfigGetZeroForMissing(key, typ) ==
    IF GetterGet(getter, key, typ).err = "ErrKeyNotFound"
    THEN [val |-> IntV(0), err |-> "nil"]
    ELSE GetterGet(getter, key, typ)

\* Config.Get
ConfigGet(key, typ) == GetterGet(getter, key, typ)

\* Config.Has
ConfigHas(key) == GetterHasKey(getter, key)

\* Config.Reload that rebuilds the getter before it looks at the error
ConfigReloadSwapsOnError(p, g, fs) ==
    LET r == ReadInConfig(p, fs)
    IN  [err |-> r.err, p |-> r.p, getter |-> NewGetter(AllSettings(r.p))]

\* Config.Reload: ReadInConfig on the provider; on an error the getter is
\* left alone, otherwise a new getter is built from AllSettings.  The result
\* is [err, p, getter].
ConfigReload(p, g, fs) ==
    LET r == ReadInConfig(p, fs)
    IN  IF r.err THEN [err |-> TRUE, p |-> r.p, getter |-> g]
        ELSE [err |-> FALSE, p |-> r.p, getter |-> NewGetter(AllSettings(r.p))]

Init ==
    /\ files = InitialFs
    /\ provider = NewConfigProvider
    /\ constructed = FALSE
    /\ getter = NoGetter
    /\ closed = FALSE
    /\ panicked = FALSE
    /\ hist = <<>>
    /\ nops = 0
    /\ nedits = 0
    /\ loaded = {}
    /\ loadedFiles = {}
    /\ dirEnvStage = 0
    /\ ConcIdle
    /\ WatchIdle
    /\ WalkIdle

\* what every call does to the bookkeeping
Record(c, p) ==
    /\ hist' = Push(hist, c)
    /\ nops' = nops + 1
    /\ loaded' = loaded \cup KeysPresent(p)
    /\ dirEnvStage' =
          IF c.op = "LoadFromDirectory" /\ ~c.err THEN 1
          ELSE IF c.op = "LoadFromEnv" /\ dirEnvStage = 1 THEN 2
          ELSE IF c.op = "Reload" /\ ~c.err /\ dirEnvStage = 2 THEN 3
          ELSE 0

CanCall == ~panicked /\ nops < MaxOps

\* config.New(WithProvider(provider)): the getter is a snapshot of AllSettings
New ==
    /\ CanCall /\ ~constructed
    /\ constructed' = TRUE
    /\ getter' = NewGetter(AllSettings(provider))
    /\ Record(Call("New", <<>>, Nil, Nil, FALSE), provider)
    /\ UNCHANGED <<files, provider, closed, panicked, nedits, loadedFiles, concVars, walkVars, watchVars>>

\* a Set that also rebuilds the getter from the provider
SetRefreshingGetter(key, value) ==
    /\ CanCall
    /\ provider' = ViperSet(provider, key, value)
    /\ getter' = IF constructed THEN NewGetter(AllSettings(provider')) ELSE getter
    /\ Record(Call("Set", key, value, Nil, FALSE), provider')
    /\ UNCHANGED <<files, constructed, closed, panicked, nedits, loadedFiles, concVars, walkVars, watchVars>>

\* provider.Set(key, value)
Set(key, value) ==
    /\ CanCall
    /\ provider' = ViperSet(provider, key, value)
    /\ Record(Call("Set", key, value, Nil, FALSE), provider')
    /\ UNCHANGED <<files, constructed, getter, closed, panicked, nedits, loadedFiles, concVars, walkVars, watchVars>>

\* FileLoader.LoadFromFile(path)
DoLoadFromFile(path) ==
    LET r == LoadFromFile(provider, files, path)
    IN  /\ CanCall
        /\ provider' = r.p
        /\ loadedFiles' = IF r.err THEN loadedFiles ELSE loadedFiles \cup {path}
        /\ Record(Call("LoadFromFile", path, FileContent(files, path), Nil, r.err), r.p)
        /\ UNCHANGED <<files, constructed, getter, closed, panicked, nedits, concVars, walkVars, watchVars>>

\* FileLoader.LoadFromDirectory(ConfDir)
DoLoadFromDirectory ==
    LET r == LoadFromDirectory(provider, files, ConfDir)
    IN  /\ CanCall
        /\ provider' = r.p
        /\ loadedFiles' =
              IF r.err THEN loadedFiles
              ELSE loadedFiles \cup
                   { PathJoin(ConfDir, name) : name \in
                       { f \in DOMAIN files : files[f] # Absent /\ IsSupportedConfigFile(f) } }
        /\ Record(Call("LoadFromDirectory", ConfDir, Nil, Nil, r.err), r.p)
        /\ UNCHANGED <<files, constructed, getter, closed, panicked, nedits, concVars, walkVars, watchVars>>

\* EnvLoader.LoadFromEnv(prefix)
DoLoadFromEnv(prefix) ==
    /\ CanCall
    /\ provider' = LoadFromEnv(provider, prefix)
    /\ Record(Call("LoadFromEnv", prefix, Nil, Nil, FALSE), provider')
    /\ UNCHANGED <<files, constructed, getter, closed, panicked, nedits, loadedFiles, concVars, walkVars, watchVars>>

\* Config.Reload()
Reload ==
    LET r == ConfigReload(provider, getter, files)
    IN  /\ CanCall /\ constructed
        /\ provider' = r.p
        /\ getter' = r.getter
        /\ Record(Call("Reload", <<>>, IF closed THEN StrV(<<"closed">>) ELSE Nil, Nil, r.err), r.p)
        /\ UNCHANGED <<files, constructed, closed, panicked, nedits, loadedFiles, concVars, walkVars, watchVars>>

\* Config.Close(): close(c.done), which panics on a closed channel
Close ==
    /\ CanCall /\ constructed
    /\ IF closed THEN panicked' = TRUE /\ closed' = closed
                 ELSE closed' = TRUE /\ panicked' = panicked
    /\ Record(Call("Close", <<>>, Nil, Nil, FALSE), provider)
    /\ UNCHANGED <<files, provider, constructed, getter, nedits, loadedFiles, concVars, walkVars, watchVars>>

\* an external edit of a file of ConfDir
EditFile(name, content) ==
    /\ ~panicked /\ nedits < MaxEdits
    /\ content # files[name]
    /\ files' = [files EXCEPT ![name] = content]
    /\ nedits' = nedits + 1
    /\ hist' = Push(hist, Call("Edit", PathJoin(ConfDir, name), content, files[name], FALSE))
    /\ dirEnvStage' = 0
    /\ UNCHANGED <<provider, constructed, getter, closed, panicked, nops, loaded, loadedFiles, concVars, walkVars, watchVars>>

Next ==
    \/ New
    \/ \E c \in SetCalls : Set(c.key, c.value)
    \/ \E path \in LoadPaths : DoLoadFromFile(path)
    \/ DoLoadFromDirectory
    \/ \E prefix \in EnvPrefixes : DoLoadFromEnv(prefix)
    \/ Reload
    \/ Close
    \/ \E name \in DirFiles : \E content \in EditsOf(name) : EditFile(name, content)

Spec == Init /\ [][Next]_vars

\* ------------------------------------------------------------------------
\* The legacy Config: traverseNestedMap and traverseNestedMapCaseInsensitive
\* ------------------------------------------------------------------------

\* what indexing a slice out of its range does
Panic == [t |-> "panic", v |-> <<>>]

\* v[index] of a slice
SliceIndex(v, index) ==
    IF index < 0 \/ index >= Len(v) THEN Panic ELSE v[index + 1]

\* one round of the loop of traverseNestedMap without the upper bound check
TraverseStepNoUpperBound(current, part) ==
    IF IsMap(current) THEN MapGet(current, part)
    ELSE IF IsSeq(current)
    THEN LET a == Atoi(part)
         IN  IF ~a.ok \/ a.n < 0 THEN Nil ELSE SliceIndex(current.v, a.n)
    ELSE Nil

\* one round of the loop of traverseNestedMap whose default case keeps the
\* value it cannot walk into
TraverseStepKeepsScalar(current, part) ==
    IF IsMap(current) THEN MapGet(current, part)
    ELSE IF IsSeq(current)
    THEN LET a == Atoi(part)
         IN  IF ~a.ok \/ a.n < 0 \/ a.n >= Len(current.v)
             THEN Nil ELSE SliceIndex(current.v, a.n)
    ELSE current

\* one round of the loop of traverseNestedMap: the next value of current,
\* Nil where the code returns nil.  The map cases (map[string]interface{},
\* map[string]string, map[interface{}]interface{}) index the map; the slice
\* cases ([]interface{}, []string) parse the part and check it against the
\* length before they index; any other value ends the walk.
TraverseStep(current, part) ==
    IF IsMap(current) THEN MapGet(current, part)
    ELSE IF IsSeq(current)
    THEN LET a == Atoi(part)
         IN  IF ~a.ok \/ a.n < 0 \/ a.n >= Len(current.v)
             THEN Nil ELSE SliceIndex(current.v, a.n)
    ELSE Nil

RECURSIVE TraverseParts(_, _)
TraverseParts(current, parts) ==
    IF Len(parts) = 0 THEN current
    ELSE LET nxt == TraverseStep(current, parts[1])
         IN  IF nxt = Nil \/ nxt = Panic THEN nxt
             ELSE TraverseParts(nxt, Tail(parts))

traverseNestedMap(settings, path) == TraverseParts(settings, Split(path, "."))

\* one round of the loop of traverseNestedMapCaseInsensitive without the scan
\* of the keys that ignores case
TraverseStepCaseSensitive(current, part) ==
    IF IsMap(current)
    THEN IF part \in DOMAIN current.v THEN {current.v[part]} ELSE {Nil}
    ELSE IF IsSeq(current)
    THEN LET a == Atoi(part)
         IN  IF ~a.ok \/ a.n < 0 \/ a.n >= Len(current.v)
             THEN {Nil} ELSE {SliceIndex(current.v, a.n)}
    ELSE {Nil}

\* one round of the loop of traverseNestedMapCaseInsensitive that scans the
\* keys ignoring case without trying the part as it is first
TraverseStepFoldOnly(current, part) ==
    IF IsMap(current)
    THEN LET hits == { k \in DOMAIN current.v : ToLower(k) = ToLower(part) }
         IN  IF hits = {} THEN {Nil} ELSE { current.v[k] : k \in hits }
    ELSE IF IsSeq(current)
    THEN LET a == Atoi(part)
         IN  IF ~a.ok \/ a.n < 0 \/ a.n >= Len(current.v)
             THEN {Nil} ELSE {SliceIndex(current.v, a.n)}
    ELSE {Nil}

\* one round of the loop of traverseNestedMapCaseInsensitive: the values
\* current can take next.  A map is tried with the part as it is, then with
\* the keys that equal it once lower-cased, in the order the range over the
\* map happens to visit them; a slice is indexed as in traverseNestedMap.
TraverseStepCaseInsensitive(current, part) ==
    IF IsMap(current)
    THEN IF part \in DOMAIN current.v THEN {current.v[part]}
         ELSE LET hits == { k \in DOMAIN current.v : ToLower(k) = ToLower(part) }
              IN  IF hits = {} THEN {Nil} ELSE { current.v[k] : k \in hits }
    ELSE IF IsSeq(current)
    THEN LET a == Atoi(part)
         IN  IF ~a.ok \/ a.n < 0 \/ a.n >= Len(current.v)
             THEN {Nil} ELSE {SliceIndex(current.v, a.n)}
    ELSE {Nil}

RECURSIVE TraversePartsCaseInsensitive(_, _)
TraversePartsCaseInsensitive(current, parts) ==
    IF Len(parts) = 0 THEN {current}
    ELSE UNION { IF nxt = Nil \/ nxt = Panic THEN {nxt}
                 ELSE TraversePartsCaseInsensitive(nxt, Tail(parts))
                 : nxt \in TraverseStepCaseInsensitive(current, parts[1]) }

\* the values traverseNestedMapCaseInsensitive can return
traverseNestedMapCaseInsensitive(settings, path) ==
    TraversePartsCaseInsensitive(settings, Split(path, "."))

\* the settings the walks are made through
WalkSettingsNested ==
    MapV(<<"m">> :> MapV(<<"L">> :>
        SeqV(<< SeqV(<<IntV(1), IntV(2)>>),
                MapV(<<"k">> :> IntV(5)),
                Nil >>)))
WalkSettingsFolded ==
    MapV((<<"A", "b">> :> SeqV(<<IntV(1), IntV(2)>>))
         @@ (<<"a", "B">> :> SeqV(<<IntV(3)>>)))
\* keys whose stored value is nil (a YAML "~"), one of them next to a key
\* that differs from it in case only
WalkSettingsNil ==
    MapV((<<"K", "n">> :> Nil) @@ (<<"k", "n">> :> IntV(4))
         @@ (<<"g">> :> MapV(<<"h">> :> Nil)))
WalkSettings == {ContentB1, WalkSettingsNested, WalkSettingsFolded, WalkSettingsNil}

\* the paths the walks are made with
WalkPaths ==
    { <<"l">>, <<"l",".","0">>, <<"l",".","1">>, <<"l",".","2">>,
      <<"l",".","3">>, <<"l",".","5">>, <<"l",".","-","1">>,
      <<"l",".","+","1">>, <<"l",".","0","1">>, <<"l",".","x">>,
      <<"l",".","1","x">>, <<"l",".">>, <<"l",".","1",".","0">>,
      <<"L",".","1">>, <<"n",".","0">>, <<"s",".","h">>,
      <<"m",".","L">>, <<"m",".","L",".","0",".","1">>,
      <<"m",".","L",".","0",".","2">>, <<"m",".","l",".","0",".","-","1">>,
      <<"m",".","L",".","1",".","k">>, <<"m",".","L",".","2">>,
      <<"m",".","L",".","3">>, <<"m",".","l",".","1",".","0">>,
      <<"m",".","L",".","2",".","k">>, <<"n",".","0",".","1">>, <<"s",".","zz">>,
      <<"a","b">>, <<"a","b",".","0">>, <<"a","b",".","1">>,
      <<"A","b",".","1">>, <<"A","b",".","2">>, <<"a","B",".","x">>,
      <<"K","n">>, <<"k","n">>, <<"g",".","h">>, <<"g",".","x">> }

InitTraverse ==
    /\ files = InitialFs
    /\ provider = NewConfigProvider
    /\ constructed = FALSE
    /\ getter = NoGetter
    /\ closed = FALSE
    /\ panicked = FALSE
    /\ hist = <<>>
    /\ nops = 0
    /\ nedits = 0
    /\ loaded = {}
    /\ loadedFiles = {}
    /\ dirEnvStage = 0
    /\ ConcIdle
    /\ WatchIdle
    /\ tIn \in [settings : WalkSettings, path : WalkPaths]
    /\ tOut = NoWalk

\* c.traverseNestedMap(settings, path)
CallTraverseNestedMap ==
    /\ tOut = NoWalk
    /\ tOut' = [fn |-> "traverseNestedMap",
                res |-> traverseNestedMap(tIn.settings, tIn.path)]
    /\ UNCHANGED <<mainVars, concVars, watchVars, tIn>>

\* c.traverseNestedMapCaseInsensitive(settings, path)
CallTraverseNestedMapCaseInsensitive ==
    /\ tOut = NoWalk
    /\ \E res \in traverseNestedMapCaseInsensitive(tIn.settings, tIn.path) :
          tOut' = [fn |-> "traverseNestedMapCaseInsensitive", res |-> res]
    /\ UNCHANGED <<mainVars, concVars, watchVars, tIn>>

NextTraverse ==
    \/ CallTraverseNestedMap
    \/ CallTraverseNestedMapCaseInsensitive

SpecTraverse == InitTraverse /\ [][NextTraverse]_vars

\* ------------------------------------------------------------------------
\* Config.Get, Config.Reload and Config.WatchFile run by three goroutines,
\* one statement at a time
\* ------------------------------------------------------------------------
MaxRuns == 2

\* the Get calls the reading goroutine makes
GetCalls == { [key |-> KeyN, typ |-> "string"], [key |-> KeySp, typ |-> "int"] }

\* the provider once FileA is loaded into it
LoadedProvider == LoadFromFile(NewConfigProvider, InitialFs, PathJoin(ConfDir, FileA)).p

\* FileLoader.LoadFromFile(FileA) and config.New(WithProvider(provider))
\* have returned; no goroutine is in a method
InitConc ==
    /\ files = InitialFs
    /\ provider = LoadedProvider
    /\ constructed = TRUE
    /\ getter = NewGetter(AllSettings(LoadedProvider))
    /\ closed = FALSE
    /\ panicked = FALSE
    /\ hist = <<>>
    /\ nops = 0
    /\ nedits = 0
    /\ loaded = KeysPresent(LoadedProvider)
    /\ loadedFiles = {PathJoin(ConfDir, FileA)}
    /\ dirEnvStage = 0
    /\ ConcIdle
    /\ WatchIdle
    /\ WalkIdle

Goto(t, label) == pc' = [pc EXCEPT ![t] = label]

Start(t) ==
    /\ pc[t] = "idle" /\ nruns[t] < MaxRuns
    /\ nruns' = [nruns EXCEPT ![t] = @ + 1]

\* Config.Get is entered: the next statement reads c.getter
GetEnter(key, typ) ==
    /\ Start("get")
    /\ rd' = [key |-> key, typ |-> typ, g |-> Nil, out |-> Nil]
    /\ Goto("get", "load")
    /\ UNCHANGED <<mainVars, mu, newG, watchedFiles, walkVars, watchVars>>

\* Config.Get reads the field c.getter; no lock is taken
GetLoadGetter ==
    /\ pc["get"] = "load"
    /\ rd' = [rd EXCEPT !.g = getter]
    /\ Goto("get", "resolve")
    /\ UNCHANGED <<mainVars, mu, newG, watchedFiles, nruns, walkVars, watchVars>>

\* Config.Get calls Get of the getter it has read, and returns
GetResolve ==
    /\ pc["get"] = "resolve"
    /\ rd' = [rd EXCEPT !.out = GetterGet(rd.g, rd.key, rd.typ)]
    /\ Goto("get", "idle")
    /\ UNCHANGED <<mainVars, mu, newG, watchedFiles, nruns, walkVars, watchVars>>

\* Config.Reload calls c.provider.ReadInConfig() and returns on an error
ReloadReadInConfig ==
    LET r == ReadInConfig(provider, files)
    IN  /\ Start("reload")
        /\ provider' = r.p
        /\ Goto("reload", IF r.err THEN "idle" ELSE "build")
        /\ UNCHANGED <<files, constructed, getter, closed, panicked, hist, nops,
                       nedits, loaded, loadedFiles, dirEnvStage,
                       mu, rd, newG, watchedFiles, walkVars, watchVars>>

\* Config.Reload evaluates NewGetter(c.provider.AllSettings())
ReloadNewGetter ==
    /\ pc["reload"] = "build"
    /\ newG' = NewGetter(AllSettings(provider))
    /\ Goto("reload", "store")
    /\ UNCHANGED <<mainVars, mu, rd, watchedFiles, nruns, walkVars, watchVars>>

\* Config.Reload assigns the field c.getter; no lock is taken
ReloadStoreGetter ==
    /\ pc["reload"] = "store"
    /\ getter' = newG
    /\ newG' = Nil
    /\ Goto("reload", "idle")
    /\ UNCHANGED <<files, provider, constructed, closed, panicked, hist, nops,
                   nedits, loaded, loadedFiles, dirEnvStage,
                   mu, rd, watchedFiles, nruns, walkVars, watchVars>>

\* Config.WatchFile: c.mu.Lock()
WatchFileLock ==
    /\ Start("watch")
    /\ mu = "free"
    /\ mu' = "watch"
    /\ Goto("watch", "locked")
    /\ UNCHANGED <<mainVars, rd, newG, watchedFiles, walkVars, watchVars>>

\* Config.WatchFile: c.watchedFiles[filePath] = true and the deferred Unlock
WatchFileUnlock(path) ==
    /\ pc["watch"] = "locked"
    /\ watchedFiles' = watchedFiles \cup {path}
    /\ mu' = "free"
    /\ Goto("watch", "idle")
    /\ UNCHANGED <<mainVars, rd, newG, nruns, walkVars, watchVars>>

\* an external edit of a file of ConfDir while the goroutines run
ConcEditFile(name, content) ==
    /\ nedits < MaxEdits
    /\ content # files[name]
    /\ files' = [files EXCEPT ![name] = content]
    /\ nedits' = nedits + 1
    /\ UNCHANGED <<provider, constructed, getter, closed, panicked, hist, nops,
                   loaded, loadedFiles, dirEnvStage, concVars, walkVars, watchVars>>

NextConc ==
    \/ \E c \in GetCalls : GetEnter(c.key, c.typ)
    \/ GetLoadGetter
    \/ GetResolve
    \/ ReloadReadInConfig
    \/ ReloadNewGetter
    \/ ReloadStoreGetter
    \/ WatchFileLock
    \/ \E path \in LoadPaths : WatchFileUnlock(path)
    \/ \E name \in DirFiles : \E content \in EditsOf(name) : ConcEditFile(name, content)

SpecConc == InitConc /\ [][NextConc]_vars

\* ------------------------------------------------------------------------
\* Config.Get and Config.Has over a provider one value was set on, as
\* TestConfig_Get and TestConfig_Has call them
\* ------------------------------------------------------------------------

\* the values set on the provider
StoredValues ==
    { StrV(<<"4","2","0">>), StrV(<<"0">>), StrV(<<"0","0","7">>),
      StrV(<<"a","b","c">>), StrV(<<"4","x","2">>), StrV(<<"x">>),
      IntV(123), [t |-> "bool", v |-> TRUE],
      MapV(<<"k">> :> IntV(1)), SeqV(<<StrV(<<"a">>), StrV(<<"b">>)>>) }

\* the keys they are set under, and the keys read
StoredKeys == { <<"k">>, <<"m","y",".","K">> }
ReadKeys == StoredKeys \cup { <<"m","y",".","k">>, <<"m","y">>, <<"z">> }

\* the types asked for: the KeyTypes of the model and one that is not among them
AskedTypes == KeyTypes \cup {"color"}

InitGet ==
    /\ files = InitialFs
    /\ provider = NewConfigProvider
    /\ constructed = FALSE
    /\ getter = NoGetter
    /\ closed = FALSE
    /\ panicked = FALSE
    /\ hist = <<>>
    /\ nops = 0
    /\ nedits = 0
    /\ loaded = {}
    /\ loadedFiles = {}
    /\ dirEnvStage = 0
    /\ ConcIdle
    /\ WatchIdle
    /\ tIn \in [stored : StoredKeys, value : StoredValues, key : ReadKeys, typ : AskedTypes]
    /\ tOut = NoWalk

\* prov.Set(stored, value); cfg := config.New(config.WithProvider(prov))
GetterOf(stored, value) ==
    NewGetter(AllSettings(ViperSet(NewConfigProvider, stored, value)))

\* cfg.Get(key, typ)
CallGet ==
    /\ tOut = NoWalk
    /\ tOut' = [fn |-> "Get",
                res |-> GetterGet(GetterOf(tIn.stored, tIn.value), tIn.key, tIn.typ)]
    /\ UNCHANGED <<mainVars, concVars, watchVars, tIn>>

\* cfg.Has(key)
CallHas ==
    /\ tOut = NoWalk
    /\ tOut' = [fn |-> "Has",
                res |-> GetterHasKey(GetterOf(tIn.stored, tIn.value), tIn.key)]
    /\ UNCHANGED <<mainVars, concVars, watchVars, tIn>>

NextGet ==
    \/ CallGet
    \/ CallHas

SpecGet == InitGet /\ [][NextGet]_vars

\* ------------------------------------------------------------------------
\* EnvLoader.LoadFromEnv over an environment of its own, as
\* TestEnvLoader_LoadFromEnv calls it
\* ------------------------------------------------------------------------
EnvAppS    == [name |-> <<"A","P","P","_","S">>, value |-> <<"1">>]
EnvAppName == [name |-> <<"A","P","P","_","N","A","M","E">>, value |-> <<"s","c","g">>]
EnvVars == {EnvAppSP, EnvFooBar, EnvAppS, EnvAppName}

\* the environments: up to three of the variables, in any order
Environs ==
    { <<>> } \cup { <<a>> : a \in EnvVars }
    \cup { e \in [1..2 -> EnvVars] : e[1] # e[2] }
    \cup { e \in [1..3 -> EnvVars] : e[1] # e[2] /\ e[1] # e[3] /\ e[2] # e[3] }

LoadPrefixes == EnvPrefixes \cup { <<"F","O","O">> }

InitEnv ==
    /\ files = InitialFs
    /\ provider = NewConfigProvider
    /\ constructed = FALSE
    /\ getter = NoGetter
    /\ closed = FALSE
    /\ panicked = FALSE
    /\ hist = <<>>
    /\ nops = 0
    /\ nedits = 0
    /\ loaded = {}
    /\ loadedFiles = {}
    /\ dirEnvStage = 0
    /\ ConcIdle
    /\ WatchIdle
    /\ tIn \in [environ : Environs, prefix : LoadPrefixes]
    /\ tOut = NoWalk

\* loader.LoadFromEnv(prefix) on a new provider, then config.New with it: the
\* result is the getter of the Config
CallLoadFromEnv ==
    /\ tOut = NoWalk
    /\ tOut' = [fn |-> "LoadFromEnv",
                res |-> NewGetter(AllSettings(
                            LoadEnvVars(NewConfigProvider, tIn.environ, tIn.prefix)))]
    /\ UNCHANGED <<mainVars, concVars, watchVars, tIn>>

NextEnv == CallLoadFromEnv

SpecEnv == InitEnv /\ [][NextEnv]_vars

\* ------------------------------------------------------------------------
\* The legacy Config: LoadFromDirectoryWithOptions
\* ------------------------------------------------------------------------

\* a directory: its entries by name, each a file content or a directory
DirV(f) == [t |-> "dir", v |-> f]
IsDir(x) == x.t = "dir"

\* fileViper := viper.New(); SetConfigFile(filepath.Join(dir, filename));
\* ReadInConfig(); AllSettings(): the result is [err, settings]
ReadFileSettings(filename, content) ==
    LET r == ReadInConfig(SetConfigFile(NewConfigProvider, PathJoin(ConfDir, filename)),
                          filename :> content)
    IN  [err |-> r.err, settings |-> IF r.err THEN Nil ELSE AllSettings(r.p)]

\* the loop over the entries with the test of continueOnError left out of
\* the file branch: a file that fails is always recorded and passed over
RECURSIVE LoadEntriesAlwaysContinue(_, _, _, _, _, _, _)
LoadEntriesAlwaysContinue(p, dirv, names, dir, prefix, continueOnError, acc) ==
    IF Len(names) = 0 THEN [errors |-> acc.errors, p |-> p, visited |-> acc.visited]
    ELSE
    LET name == names[1]
        entry == dirv.v[name]
        path == PathJoin(dir, name)
        namespace == IF prefix = <<>> THEN BaseNameOf(name)
                     ELSE prefix \o <<".">> \o BaseNameOf(name)
    IN  IF IsDir(entry)
        THEN LET sub == LoadEntriesAlwaysContinue(p, entry, SortedNames(DOMAIN entry.v), path,
                            IF prefix = <<>> THEN name ELSE prefix \o <<".">> \o name,
                            continueOnError, [errors |-> <<>>, visited |-> acc.visited])
             IN  LoadEntriesAlwaysContinue(sub.p, dirv, Tail(names), dir, prefix, continueOnError,
                            [errors |-> acc.errors \o sub.errors, visited |-> sub.visited])
        ELSE IF Ext(name) \notin SupportedConfigExts
        THEN LoadEntriesAlwaysContinue(p, dirv, Tail(names), dir, prefix, continueOnError, acc)
        ELSE LET r == ReadFileSettings(name, entry)
                 seen == Append(acc.visited, path)
             IN  IF r.err
                 THEN LoadEntriesAlwaysContinue(p, dirv, Tail(names), dir, prefix, continueOnError,
                            [errors |-> Append(acc.errors, path), visited |-> seen])
                 ELSE LoadEntriesAlwaysContinue(
                            MergeConfigMap(p, MapV(namespace :> r.settings)),
                            dirv, Tail(names), dir, prefix, continueOnError,
                            [errors |-> acc.errors, visited |-> seen])

\* loadFromDirectoryWithPrefixAndOptions, the loop over the sorted entries of
\* a directory that could be read.  acc holds the errors collected so far,
\* each as the path of the file it is about, and the files read so far.  The
\* result is [errors, p, visited].
RECURSIVE LoadEntries(_, _, _, _, _, _, _)
LoadEntries(p, dirv, names, dir, prefix, continueOnError, acc) ==
    IF Len(names) = 0 THEN [errors |-> acc.errors, p |-> p, visited |-> acc.visited]
    ELSE
    LET name == names[1]
        entry == dirv.v[name]
        path == PathJoin(dir, name)
        namespace == IF prefix = <<>> THEN BaseNameOf(name)
                     ELSE prefix \o <<".">> \o BaseNameOf(name)
    IN  IF IsDir(entry)
        THEN LET sub == LoadEntries(p, entry, SortedNames(DOMAIN entry.v), path,
                            IF prefix = <<>> THEN name ELSE prefix \o <<".">> \o name,
                            continueOnError, [errors |-> <<>>, visited |-> acc.visited])
             IN  IF Len(sub.errors) > 0 /\ ~continueOnError
                 THEN sub
                 ELSE LoadEntries(sub.p, dirv, Tail(names), dir, prefix, continueOnError,
                            [errors |-> acc.errors \o sub.errors, visited |-> sub.visited])
        ELSE IF Ext(name) \notin SupportedConfigExts
        THEN LoadEntries(p, dirv, Tail(names), dir, prefix, continueOnError, acc)
        ELSE LET r == ReadFileSettings(name, entry)
                 seen == Append(acc.visited, path)
             IN  IF r.err
                 THEN IF continueOnError
                      THEN LoadEntries(p, dirv, Tail(names), dir, prefix, continueOnError,
                                [errors |-> Append(acc.errors, path), visited |-> seen])
                      ELSE [errors |-> <<path>>, p |-> p, visited |-> seen]
                 ELSE LoadEntries(MergeConfigMap(p, MapV(namespace :> r.settings)),
                                dirv, Tail(names), dir, prefix, continueOnError,
                                [errors |-> acc.errors, visited |-> seen])

\* loadFromDirectoryWithPrefixAndOptions: a directory that cannot be read is
\* one error, about the directory
loadFromDirectoryWithPrefixAndOptions(p, dirv, dir, prefix, continueOnError) ==
    IF dirv = Absent THEN [errors |-> <<dir>>, p |-> p, visited |-> <<>>]
    ELSE LoadEntries(p, dirv, SortedNames(DOMAIN dirv.v), dir, prefix, continueOnError,
                     [errors |-> <<>>, visited |-> <<>>])

\* Config.LoadFromDirectoryWithOptions
LoadFromDirectoryWithOptions(p, dirv, dir, continueOnError) ==
    loadFromDirectoryWithPrefixAndOptions(p, dirv, dir, <<>>, continueOnError)

\* the directories the loads are made on
FileT == <<"t", ".", "y", "m", "l">>
FileX == <<"x", ".", "y", "a", "m", "l">>
FileK == <<"k", ".", "y", "m", "l">>
SubDir == <<"s">>
ContentT1 == MapV(<<"u">> :> IntV(2))
ContentX1 == MapV(<<"V">> :> MapV(<<"w">> :> StrV(<<"o">>)))

OptEntry(name, entries) == { <<>> } \cup { name :> e : e \in entries }

SubDirs == { DirV(x @@ (FileK :> ContentT1)) : x \in OptEntry(FileX, {ContentX1, Invalid}) }

LoadDirs ==
    { DirV(a @@ b @@ c @@ s @@ t) :
        a \in OptEntry(FileA, {ContentA1, Invalid}),
        b \in OptEntry(FileB, {ContentB1, Invalid}),
        c \in OptEntry(FileC, {ContentC1, Invalid}),
        s \in OptEntry(SubDir, SubDirs),
        t \in OptEntry(FileT, {ContentT1, Invalid}) }

\* ------------------------------------------------------------------------
\* loader/file.Loader with its error returns
\* ------------------------------------------------------------------------

\* an error value: the sentinel it wraps, the error it was caused by and the
\* paths its message names
NoError == [sentinel |-> "nil", cause |-> "nil", paths |-> {}]
ErrorOf(sentinel, cause, paths) == [sentinel |-> sentinel, cause |-> cause, paths |-> paths]

\* the error of provider.ReadInConfig: viper's ConfigFileNotFoundError and
\* UnsupportedConfigError, the *PathError of the read (its message names the
\* file), ConfigParseError (its message is that of the parser)
ReadInConfigError(p, fs) ==
    IF ~ReadInConfig(p, fs).err THEN NoError
    ELSE IF p.configFile = NoFile THEN ErrorOf("nil", "ConfigFileNotFoundError", {})
    ELSE IF GetConfigType(p.configFile) \notin ViperSupportedExts
    THEN ErrorOf("nil", "UnsupportedConfigError", {})
    ELSE IF FileContent(fs, p.configFile) = Absent
    THEN ErrorOf("nil", "PathError", {p.configFile})
    ELSE ErrorOf("nil", "ConfigParseError", {})

\* a Loader: its provider, Nil when it has none
NewFileLoader(p) == [provider |-> p]

\* the regular files of a directory, by name
RegularFiles(dirv) ==
    [name \in { n \in DOMAIN dirv.v : ~IsDir(dirv.v[n]) } |-> dirv.v[name]]

\* Loader.LoadFromFile with the error it returns: [err, p, touched], touched
\* telling whether the file system was looked at
LoaderLoadFromFile(l, fs, configFile) ==
    IF l.provider = Nil
    THEN [err |-> ErrorOf("ErrBackendProviderHasNoConfig", "nil", {}),
          p |-> Nil, touched |-> FALSE]
    ELSE LET r == LoadFromFile(l.provider, fs, configFile)
             cause == ReadInConfigError(SetConfigFile(l.provider, configFile), fs)
         IN  [err |-> IF r.err
                      THEN ErrorOf("ErrReadConfigFileFailed", cause.cause, cause.paths)
                      ELSE NoError,
              p |-> r.p, touched |-> TRUE]

\* Loader.LoadFromDirectory with the error it returns: [err, p, touched]
LoaderLoadFromDirectory(l, dirv, dir) ==
    IF l.provider = Nil
    THEN [err |-> ErrorOf("ErrBackendProviderHasNoConfig", "nil", {}),
          p |-> Nil, touched |-> FALSE]
    ELSE IF dirv = Absent
    THEN [err |-> ErrorOf("ErrFailedReadDirectory", "PathError", {dir}),
          p |-> l.provider, touched |-> TRUE]
    ELSE LET fs == RegularFiles(dirv)
             r == LoadFromDirectory(l.provider, fs, dir)
         IN  IF ~r.err THEN [err |-> NoError, p |-> r.p, touched |-> TRUE]
             ELSE LET cause == ReadInConfigError(
                                  SetConfigFile(NewConfigProvider, r.path), fs)
                  IN  [err |-> ErrorOf("nil", cause.cause, cause.paths \cup {r.path}),
                       p |-> r.p, touched |-> TRUE]

\* the Loader of a call: over a new provider, or without one
LoaderOf(hasProvider) == NewFileLoader(IF hasProvider THEN NewConfigProvider ELSE Nil)

\* the paths LoadFromFile is called with: the files the directory may hold
\* and one it never holds
FileZ == <<"z", ".", "y", "a", "m", "l">>
LoadFilePaths == { PathJoin(ConfDir, name) : name \in {FileA, FileB, FileC, FileT, FileZ} }

InitDirLoad ==
    /\ files = InitialFs
    /\ provider = NewConfigProvider
    /\ constructed = FALSE
    /\ getter = NoGetter
    /\ closed = FALSE
    /\ panicked = FALSE
    /\ hist = <<>>
    /\ nops = 0
    /\ nedits = 0
    /\ loaded = {}
    /\ loadedFiles = {}
    /\ dirEnvStage = 0
    /\ ConcIdle
    /\ WatchIdle
    /\ tIn \in [dirv : LoadDirs \cup {Absent}, continueOnError : BOOLEAN,
                 hasProvider : BOOLEAN]
    /\ tOut = NoWalk

\* config := New(); config.LoadFromDirectoryWithOptions(dir, continueOnError)
CallLoadFromDirectoryWithOptions ==
    /\ tOut = NoWalk
    /\ tOut' = [fn |-> "LoadFromDirectoryWithOptions",
                res |-> LoadFromDirectoryWithOptions(NewConfigProvider, tIn.dirv,
                                                     ConfDir, tIn.continueOnError)]
    /\ UNCHANGED <<mainVars, concVars, watchVars, tIn>>

\* loader := file.NewFileLoader(provider); loader.LoadFromDirectory(dir)
CallLoaderLoadFromDirectory ==
    /\ tOut = NoWalk
    /\ tOut' = [fn |-> "LoadFromDirectory",
                res |-> LoaderLoadFromDirectory(LoaderOf(tIn.hasProvider), tIn.dirv, ConfDir)]
    /\ UNCHANGED <<mainVars, concVars, watchVars, tIn>>

\* loader := file.NewFileLoader(provider); loader.LoadFromFile(path)
CallLoaderLoadFromFile(path) ==
    /\ tOut = NoWalk
    /\ tIn.dirv # Absent
    /\ tOut' = [fn |-> "LoadFromFile", path |-> path,
                res |-> LoaderLoadFromFile(LoaderOf(tIn.hasProvider),
                                           RegularFiles(tIn.dirv), path)]
    /\ UNCHANGED <<mainVars, concVars, watchVars, tIn>>

NextDirLoad ==
    \/ CallLoadFromDirectoryWithOptions
    \/ CallLoaderLoadFromDirectory
    \/ \E path \in LoadFilePaths : CallLoaderLoadFromFile(path)

SpecDirLoad == InitDirLoad /\ [][NextDirLoad]_vars

\* ------------------------------------------------------------------------
\* The legacy Config: Get, GetString, GetInt, IsSet and the MustGet accessors
\* ------------------------------------------------------------------------

\* c.viper.Get(key): the key is lower-cased and looked up in the layers
LegacyViperGet(p, key) == ViperFind(p.override, p.config, Split(ToLower(key), "."))

\* Config.IsSet: c.viper.IsSet(key)
LegacyIsSet(p, key) == LegacyViperGet(p, key) # Nil

\* strings.Contains(key, ".") and strings.SplitN(key, ".", 2)
ContainsDot(key) == \E i \in 1..Len(key) : key[i] = "."
FirstDot(key) == CHOOSE i \in 1..Len(key) : key[i] = "." /\ \A j \in 1..(i-1) : key[j] # "."
TopLevelKey(key) == SubSeq(key, 1, FirstDot(key) - 1)
RestOfKey(key) == SubSeq(key, FirstDot(key) + 1, Len(key))

\* Config.Get: viper's Get; when that is nil and the key has a dot, the walk
\* of traverseNestedMap from the map at the top-level key, and when that is
\* nil too the walk of traverseNestedMapCaseInsensitive.  The result is the
\* set of values the call can return.
LegacyConfigGet(p, key) ==
    LET value == LegacyViperGet(p, key)
    IN  IF ~(value = Nil /\ ContainsDot(key)) THEN {value}
        ELSE LET topLevelValue == LegacyViperGet(p, TopLevelKey(key))
                 walked == IF topLevelValue # Nil /\ IsMap(topLevelValue)
                           THEN traverseNestedMap(topLevelValue, RestOfKey(key))
                           ELSE Nil
             IN  IF walked # Nil THEN {walked}
                 ELSE IF topLevelValue # Nil /\ IsMap(topLevelValue)
                 THEN traverseNestedMapCaseInsensitive(topLevelValue, RestOfKey(key))
                 ELSE {Nil}

\* strconv.Itoa for the integers of the model
RECURSIVE NatToString(_)
NatToString(n) ==
    IF n < 10 THEN <<Digits[n + 1]>>
    ELSE NatToString(n \div 10) \o <<Digits[(n % 10) + 1]>>
Itoa(n) == IF n < 0 THEN <<"-">> \o NatToString(0 - n) ELSE NatToString(n)

\* cast.ToString and cast.ToInt of what viper's Get returns
CastToString(x) ==
    IF x.t = "str" THEN x
    ELSE IF x.t = "int" THEN StrV(Itoa(x.v))
    ELSE IF x.t = "bool" THEN StrV(IF x.v THEN <<"t","r","u","e">> ELSE <<"f","a","l","s","e">>)
    ELSE StrV(<<>>)
CastToInt(x) ==
    IF x.t = "int" THEN x
    ELSE IF x.t = "str" /\ Atoi(x.v).ok THEN IntV(Atoi(x.v).n)
    ELSE IF x.t = "bool" THEN IntV(IF x.v THEN 1 ELSE 0)
    ELSE IntV(0)

\* Config.getTypedValue: the default for nil, the value when it has the type,
\* otherwise what viper's typed getter makes of viper's own Get
GetTypedValue(p, key, defaultValue, typ, viperTyped) ==
    { IF value = Nil THEN defaultValue
      ELSE IF value.t = typ THEN value
      ELSE viperTyped : value \in LegacyConfigGet(p, key) }

\* Config.GetString, Config.GetInt
GetString(p, key) == GetTypedValue(p, key, StrV(<<>>), "str", CastToString(LegacyViperGet(p, key)))
GetInt(p, key) == GetTypedValue(p, key, IntV(0), "int", CastToInt(LegacyViperGet(p, key)))

\* panic("Configuration key not found: " + key)
KeyNotFoundPanic(key) == [t |-> "panic", v |-> key]

\* Config.mustGet followed by the typed getter
MustGetString(p, key) ==
    IF ~LegacyIsSet(p, key) THEN {KeyNotFoundPanic(key)} ELSE GetString(p, key)
MustGetInt(p, key) ==
    IF ~LegacyIsSet(p, key) THEN {KeyNotFoundPanic(key)} ELSE GetInt(p, key)

\* the values set on the legacy Config, the keys they are set under and the
\* keys read
LegacyValues ==
    { StrV(<<"t","e","s","t">>), IntV(42), StrV(<<"7">>),
      MapV((<<"a">> :> SeqV(<<StrV(<<"u">>), StrV(<<"5">>)>>))
           @@ (<<"i">> :> SeqV(<<MapV(<<"i","d">> :> IntV(1))>>))
           @@ (<<"M">> :> MapV(<<"k">> :> StrV(<<"v">>)))) }
LegacyStoredKeys == { <<"c">>, <<"s",".","v">> }
LegacyReadKeys ==
    { <<"c">>, <<"C">>, <<"s",".","v">>, <<"S",".","V">>, <<"z">>, <<"c",".","z">>,
      <<"c",".","a">>, <<"c",".","a",".","0">>, <<"c",".","a",".","1">>,
      <<"c",".","a",".","5">>, <<"c",".","a",".","x">>,
      <<"c",".","i",".","0",".","i","d">>, <<"c",".","m",".","k">>,
      <<"C",".","M",".","K">>, <<"s",".","v",".","a",".","1">> }

InitLegacyGet ==
    /\ files = InitialFs
    /\ provider = NewConfigProvider
    /\ constructed = FALSE
    /\ getter = NoGetter
    /\ closed = FALSE
    /\ panicked = FALSE
    /\ hist = <<>>
    /\ nops = 0
    /\ nedits = 0
    /\ loaded = {}
    /\ loadedFiles = {}
    /\ dirEnvStage = 0
    /\ ConcIdle
    /\ WatchIdle
    /\ tIn \in [stored : LegacyStoredKeys, value : LegacyValues, key : LegacyReadKeys]
    /\ tOut = NoWalk

\* config := New(); config.Set(stored, value)
LegacyConfigOf(stored, value) == ViperSet(NewConfigProvider, stored, value)

\* config.MustGetString(key)
CallMustGetString ==
    /\ tOut = NoWalk
    /\ \E res \in MustGetString(LegacyConfigOf(tIn.stored, tIn.value), tIn.key) :
          tOut' = [fn |-> "MustGetString", res |-> res]
    /\ UNCHANGED <<mainVars, concVars, watchVars, tIn>>

\* config.MustGetInt(key)
CallMustGetInt ==
    /\ tOut = NoWalk
    /\ \E res \in MustGetInt(LegacyConfigOf(tIn.stored, tIn.value), tIn.key) :
          tOut' = [fn |-> "MustGetInt", res |-> res]
    /\ UNCHANGED <<mainVars, concVars, watchVars, tIn>>

\* config.GetString(key)
CallGetString ==
    /\ tOut = NoWalk
    /\ \E res \in GetString(LegacyConfigOf(tIn.stored, tIn.value), tIn.key) :
          tOut' = [fn |-> "GetString", res |-> res]
    /\ UNCHANGED <<mainVars, concVars, watchVars, tIn>>

\* config.GetInt(key)
CallGetInt ==
    /\ tOut = NoWalk
    /\ \E res \in GetInt(LegacyConfigOf(tIn.stored, tIn.value), tIn.key) :
          tOut' = [fn |-> "GetInt", res |-> res]
    /\ UNCHANGED <<mainVars, concVars, watchVars, tIn>>

NextLegacyGet ==
    \/ CallMustGetString
    \/ CallMustGetInt
    \/ CallGetString
    \/ CallGetInt

SpecLegacyGet == InitLegacyGet /\ [][NextLegacyGet]_vars

\* ------------------------------------------------------------------------
\* Watching files: the legacy Config.WatchConfigWithCallback, its event
\* goroutine, StopWatching and ReloadConfig, and Config.StartWatching of
\* config.Config
\* ------------------------------------------------------------------------

\* the callbacks a caller passes; WatchConfig passes nil
Callbacks == {"cb1", "cb2"}

\* the paths watched: a file that exists, one that does not exist until it is
\* written, and one that never exists
WatchNames == {FileA, FileB}
WatchPaths == { PathJoin(ConfDir, name) : name \in WatchNames \cup {FileZ} }
WatchFs == [InitialFs EXCEPT ![FileB] = Absent]

\* filepath.Clean, which fsnotify applies to the name in Add and Remove: of
\* the spellings of the model only a leading "./" is there to drop
Clean(path) ==
    IF Len(path) >= 2 /\ SubSeq(path, 1, 2) = <<".", "/">>
    THEN SubSeq(path, 3, Len(path)) ELSE path

\* a second spelling of the path of FileA, and the spellings the legacy watch
\* calls are made with
AliasA == <<".", "/">> \o PathJoin(ConfDir, FileA)
WatchSpellings == WatchPaths \cup {AliasA}

\* fsnotify Watcher.Add and the watcher's AddFile fail on a path that does
\* not exist
CanAdd(fs, path) == FileContent(fs, Clean(path)) # Absent

\* a reload that replaces the configuration by the settings of the file
ReloadConfigReplaces(p, fs, configFile) ==
    LET v == ReadInConfig(SetConfigFile(NewConfigProvider, configFile), fs)
    IN  IF v.err THEN [err |-> TRUE, p |-> p]
        ELSE [err |-> FALSE, p |-> [p EXCEPT !.config = v.p.config]]

\* Config.ReloadConfig: a fresh viper reads the file, and its settings are
\* merged into the configuration; an unreadable file changes nothing
ReloadConfig(p, fs, configFile) ==
    LET v == ReadInConfig(SetConfigFile(NewConfigProvider, configFile), fs)
    IN  IF v.err THEN [err |-> TRUE, p |-> p]
        ELSE [err |-> FALSE, p |-> MergeConfigMap(p, AllSettings(v.p))]

\* a watch call that records the file before it is added to the watcher
WatchCallRecordsFirst(w, watched, fs, configFile, callback) ==
    LET w1 == IF w = NoWatcher THEN [callback |-> callback, paths |-> {}] ELSE w
    IN  IF configFile \in watched
        THEN [err |-> FALSE, watcher |-> w1, watched |-> watched]
        ELSE IF ~CanAdd(fs, configFile)
        THEN [err |-> TRUE, watcher |-> w1, watched |-> watched \cup {configFile}]
        ELSE [err |-> FALSE,
              watcher |-> [w1 EXCEPT !.paths = @ \cup {Clean(configFile)}],
              watched |-> watched \cup {configFile}]

\* the body of Config.WatchConfigWithCallback: the watcher and its event
\* goroutine are created when there is none, and the goroutine holds the
\* callback of the call that creates it; a file already watched returns nil;
\* otherwise the file is added to the watcher, which keeps the cleaned name,
\* and then marked as watched under the name the caller gave
WatchCall(w, watched, fs, configFile, callback) ==
    LET w1 == IF w = NoWatcher THEN [callback |-> callback, paths |-> {}] ELSE w
    IN  IF configFile \in watched
        THEN [err |-> FALSE, watcher |-> w1, watched |-> watched]
        ELSE IF ~CanAdd(fs, configFile)
        THEN [err |-> TRUE, watcher |-> w1, watched |-> watched]
        ELSE [err |-> FALSE,
              watcher |-> [w1 EXCEPT !.paths = @ \cup {Clean(configFile)}],
              watched |-> watched \cup {configFile}]

\* the callbacks passed so far for a path
PassedFor(path) == IF Clean(path) \in DOMAIN passed THEN passed[Clean(path)] ELSE {}

\* the previous call was a failed watch call for the same path
FailedBefore(fn, path) ==
    tOut # NoWalk /\ tOut.fn = fn /\ tOut.path = path /\ tOut.err

InitWatch ==
    /\ files = WatchFs
    /\ provider = NewConfigProvider
    /\ constructed = FALSE
    /\ getter = NoGetter
    /\ closed = FALSE
    /\ panicked = FALSE
    /\ hist = <<>>
    /\ nops = 0
    /\ nedits = 0
    /\ loaded = {}
    /\ loadedFiles = {}
    /\ dirEnvStage = 0
    /\ ConcIdle
    /\ WatchIdle
    /\ WalkIdle

\* config.WatchConfigWithCallback(configFile, callback), and
\* config.WatchConfig(configFile) when callback is nil
WatchConfigWithCallback(configFile, callback) ==
    /\ nops < MaxOps
    /\ LET r == WatchCall(watcher, legacyWatchedFiles, files, configFile, callback)
       IN  /\ watcher' = r.watcher
           /\ legacyWatchedFiles' = r.watched
           /\ passed' = IF r.err THEN passed
                        ELSE (Clean(configFile) :> (PassedFor(configFile) \cup {callback}))
                             @@ passed
           /\ tOut' = [fn |-> "WatchConfigWithCallback", path |-> configFile,
                       err |-> r.err, existed |-> CanAdd(files, configFile),
                       before |-> legacyWatchedFiles, after |-> r.watched,
                       again |-> FailedBefore("WatchConfigWithCallback", configFile)]
    /\ nops' = nops + 1
    /\ UNCHANGED <<files, provider, constructed, getter, closed, panicked, hist,
                   nedits, loaded, loadedFiles, dirEnvStage, concVars, tIn,
                   events, ran, attached>>

\* config.StopWatching()
StopWatching ==
    /\ nops < MaxOps
    /\ watcher # NoWatcher
    /\ watcher' = NoWatcher
    /\ legacyWatchedFiles' = {}
    /\ events' = <<>>
    /\ passed' = <<>>
    /\ tOut' = [fn |-> "StopWatching", path |-> <<>>, err |-> FALSE, existed |-> FALSE,
                before |-> legacyWatchedFiles, after |-> {}, again |-> FALSE]
    /\ nops' = nops + 1
    /\ UNCHANGED <<files, provider, constructed, getter, closed, panicked, hist,
                   nedits, loaded, loadedFiles, dirEnvStage, concVars, tIn,
                   ran, attached>>

\* config.StopWatchingFile(configFile): nothing to do without a watcher or
\* for a file not marked as watched; otherwise watcher.Remove, whose error is
\* returned, and then the mark is deleted
StopWatchingFile(configFile) ==
    /\ nops < MaxOps
    /\ LET noop == watcher = NoWatcher \/ configFile \notin legacyWatchedFiles
           err == ~noop /\ Clean(configFile) \notin watcher.paths
           done == ~noop /\ ~err
       IN  /\ watcher' = IF done THEN [watcher EXCEPT !.paths = @ \ {Clean(configFile)}]
                         ELSE watcher
           /\ legacyWatchedFiles' = IF done THEN legacyWatchedFiles \ {configFile}
                                    ELSE legacyWatchedFiles
           /\ passed' = IF done
                        THEN [q \in (DOMAIN passed) \ {Clean(configFile)} |-> passed[q]]
                        ELSE passed
           /\ tOut' = [fn |-> "StopWatchingFile", path |-> configFile, err |-> err,
                       existed |-> CanAdd(files, configFile),
                       before |-> legacyWatchedFiles,
                       after |-> IF done THEN legacyWatchedFiles \ {configFile}
                                 ELSE legacyWatchedFiles,
                       again |-> FALSE]
    /\ nops' = nops + 1
    /\ UNCHANGED <<files, provider, constructed, getter, closed, panicked, hist,
                   nedits, loaded, loadedFiles, dirEnvStage, concVars, tIn,
                   events, ran, attached>>

\* cfg.StartWatching(filePath) of config.Config: the watcher's AddFile, whose
\* error is wrapped; Config.watchedFiles is not touched
StartWatching(filePath) ==
    /\ nops < MaxOps
    /\ attached' = IF CanAdd(files, filePath) THEN attached \cup {filePath} ELSE attached
    /\ tOut' = [fn |-> "StartWatching", path |-> filePath,
                err |-> ~CanAdd(files, filePath), existed |-> CanAdd(files, filePath),
                before |-> watchedFiles, after |-> watchedFiles,
                again |-> FailedBefore("StartWatching", filePath)]
    /\ nops' = nops + 1
    /\ UNCHANGED <<files, provider, constructed, getter, closed, panicked, hist,
                   nedits, loaded, loadedFiles, dirEnvStage, concVars, tIn,
                   watcher, legacyWatchedFiles, events, ran, passed>>

\* os.WriteFile(path, content) by anyone: the file is created or rewritten,
\* and a watcher that has added the path gets a Write event
WriteFile(name, content) ==
    /\ nedits < MaxEdits
    /\ content # files[name]
    /\ files' = [files EXCEPT ![name] = content]
    /\ events' = IF watcher # NoWatcher /\ PathJoin(ConfDir, name) \in watcher.paths
                 THEN Append(events, PathJoin(ConfDir, name)) ELSE events
    /\ nedits' = nedits + 1
    /\ UNCHANGED <<provider, constructed, getter, closed, panicked, hist, nops,
                   loaded, loadedFiles, dirEnvStage, concVars, walkVars,
                   watcher, legacyWatchedFiles, ran, passed, attached>>

\* the event goroutine takes a Write event: ReloadConfig(event.Name), then
\* the callback it holds when that is not nil
HandleEvent ==
    /\ watcher # NoWatcher
    /\ events # <<>>
    /\ LET name == Head(events)
           r == ReloadConfig(provider, files, name)
       IN  /\ provider' = r.p
           /\ ran' = [name |-> name, reloaded |-> ~r.err, settings |-> r.p.config,
                      called |-> watcher.callback, passedFor |-> PassedFor(name)]
    /\ events' = Tail(events)
    /\ UNCHANGED <<files, constructed, getter, closed, panicked, hist, nops,
                   nedits, loaded, loadedFiles, dirEnvStage, concVars, walkVars,
                   watcher, legacyWatchedFiles, passed, attached>>

NextWatch ==
    \/ \E configFile \in WatchSpellings, callback \in Callbacks \cup {NoCallback} :
          WatchConfigWithCallback(configFile, callback)
    \/ \E configFile \in WatchSpellings : StopWatchingFile(configFile)
    \/ StopWatching
    \/ \E filePath \in WatchPaths : StartWatching(filePath)
    \/ \E name \in WatchNames : \E content \in EditsOf(name) \ {Absent} :
          WriteFile(name, content)
    \/ HandleEvent

SpecWatch == InitWatch /\ [][NextWatch]_vars

\* ------------------------------------------------------------------------
\* Merging a file into a configuration that is already loaded:
\* Loader.mergeConfigFile and the legacy directory load's MergeConfigMap
\* ------------------------------------------------------------------------

\* the values two files give to the same key, and the trees of the files
MergeValues ==
    { IntV(1), StrV(<<"x">>), SeqV(<<IntV(1), IntV(2)>>), SeqV(<<IntV(3)>>),
      MapV(<<"p">> :> IntV(1)), MapV((<<"p">> :> IntV(2)) @@ (<<"q">> :> IntV(3))) }
MergeTrees ==
    { MapV(n @@ m) : n \in OptEntry(<<"n">>, MergeValues),
                     m \in OptEntry(<<"m">>, {IntV(1), MapV(<<"n">> :> StrV(<<"x">>))}) }

\* the provider after its configuration was read from a file holding base
ProviderHolding(base) == [NewConfigProvider EXCEPT !.config = base]

InitMerge ==
    /\ files = InitialFs
    /\ provider = NewConfigProvider
    /\ constructed = FALSE
    /\ getter = NoGetter
    /\ closed = FALSE
    /\ panicked = FALSE
    /\ hist = <<>>
    /\ nops = 0
    /\ nedits = 0
    /\ loaded = {}
    /\ loadedFiles = {}
    /\ dirEnvStage = 0
    /\ ConcIdle
    /\ WatchIdle
    /\ tIn \in [base : MergeTrees, incoming : MergeTrees]
    /\ tOut = NoWalk

\* loader.mergeConfigFile(configFile) on a provider holding tIn.base, the
\* file holding tIn.incoming
CallMergeConfigFile ==
    /\ tOut = NoWalk
    /\ LET r == MergeConfigFile(ProviderHolding(tIn.base), FileB :> tIn.incoming,
                                PathJoin(ConfDir, FileB))
       IN  tOut' = [fn |-> "mergeConfigFile", err |-> r.err, res |-> r.p.config]
    /\ UNCHANGED <<mainVars, concVars, watchVars, tIn>>

\* the legacy directory load of two files with the same base name, a.json
\* holding tIn.base and a.yaml holding tIn.incoming: both are merged under
\* the namespace "a"
CallLoadSameNamespace ==
    /\ tOut = NoWalk
    /\ LET dirv == DirV((<<"a",".","j","s","o","n">> :> tIn.base) @@ (FileA :> tIn.incoming))
           r == LoadFromDirectoryWithOptions(NewConfigProvider, dirv, ConfDir, FALSE)
       IN  tOut' = [fn |-> "LoadFromDirectory", err |-> Len(r.errors) > 0,
                    res |-> MapGet(r.p.config, <<"a">>)]
    /\ UNCHANGED <<mainVars, concVars, watchVars, tIn>>

NextMerge ==
    \/ CallMergeConfigFile
    \/ CallLoadSameNamespace

SpecMerge == InitMerge /\ [][NextMerge]_vars

\* ------------------------------------------------------------------------
\* Case variants of a stored path: Config.Get of the legacy Config and
\* traverseNestedMapCaseInsensitive
\* ------------------------------------------------------------------------

\* the characters that equal c when case is ignored
CaseSet(c) ==
    {c} \cup { UpperLetters[i] : i \in { j \in 1..Len(UpperLetters) :
                                          LowerLetters[j] = ToLowerChar(c) } }
        \cup { LowerLetters[i] : i \in { j \in 1..Len(LowerLetters) :
                                          LowerLetters[j] = ToLowerChar(c) } }

\* every spelling of a path that differs from it in case only
RECURSIVE CaseVariants(_)
CaseVariants(path) ==
    IF Len(path) = 0 THEN { <<>> }
    ELSE { <<c>> \o rest : c \in CaseSet(path[1]), rest \in CaseVariants(Tail(path)) }

\* a tree with mixed-case keys, none colliding, and a mapping inside a
\* sequence; the paths stored in it
CaseTree ==
    MapV(<<"A","p">> :>
        MapV((<<"N","m">> :> StrV(<<"x">>))
             @@ (<<"r","L">> :> SeqV(<< MapV(<<"I","d">> :> IntV(1)), StrV(<<"r">>) >>))))
CaseStoredPaths ==
    { <<"A","p",".","N","m">>, <<"A","p",".","r","L",".","1">>,
      <<"A","p",".","r","L",".","0",".","I","d">> }

InitCase ==
    /\ files = InitialFs
    /\ provider = NewConfigProvider
    /\ constructed = FALSE
    /\ getter = NoGetter
    /\ closed = FALSE
    /\ panicked = FALSE
    /\ hist = <<>>
    /\ nops = 0
    /\ nedits = 0
    /\ loaded = {}
    /\ loadedFiles = {}
    /\ dirEnvStage = 0
    /\ ConcIdle
    /\ WatchIdle
    /\ tIn \in UNION { { [tree |-> CaseTree, path |-> path, variant |-> v] :
                          v \in CaseVariants(path) } : path \in CaseStoredPaths }
    /\ tOut = NoWalk

\* config := New(); config.Set(k, v) for the top-level keys of the tree
RECURSIVE SetAll(_, _, _)
SetAll(p, tree, keys) ==
    IF keys = {} THEN p
    ELSE LET k == CHOOSE k \in keys : TRUE
         IN  SetAll(ViperSet(p, k, tree.v[k]), tree, keys \ {k})
ConfigHolding(tree) == SetAll(NewConfigProvider, tree, DOMAIN tree.v)

\* config.Get(variant) on a Config the tree was set on
CallGetVariant ==
    /\ tOut = NoWalk
    /\ \E res \in LegacyConfigGet(ConfigHolding(tIn.tree), tIn.variant) :
          tOut' = [fn |-> "Get", res |-> res,
                   stored |-> LegacyConfigGet(ConfigHolding(tIn.tree), tIn.path)]
    /\ UNCHANGED <<mainVars, concVars, watchVars, tIn>>

\* c.traverseNestedMapCaseInsensitive(tree, variant)
CallTraverseVariant ==
    /\ tOut = NoWalk
    /\ \E res \in traverseNestedMapCaseInsensitive(tIn.tree, tIn.variant) :
          tOut' = [fn |-> "traverseNestedMapCaseInsensitive", res |-> res,
                   stored |-> {traverseNestedMap(tIn.tree, tIn.path)}]
    /\ UNCHANGED <<mainVars, concVars, watchVars, tIn>>

NextCase ==
    \/ CallGetVariant
    \/ CallTraverseVariant

SpecCase == InitCase /\ [][NextCase]_vars

\* ------------------------------------------------------------------------
\* Hot reload of config.Config: StartWatching, the watcher's thread running
\* the callback StartWatching registered, Reload called by the application,
\* and Get, with the file written to from outside
\* ------------------------------------------------------------------------

\* what a write may leave in a file: one of its contents, or something its
\* parser rejects, as a reader meets in the middle of a write
WritesOf(name) == (EditsOf(name) \ {Absent}) \cup {Invalid}

\* a write to a file; the watcher is notified when the path is attached
HotWriteFile(name, content) ==
    /\ nedits < MaxEdits
    /\ content # files[name]
    /\ files' = [files EXCEPT ![name] = content]
    /\ events' = IF PathJoin(ConfDir, name) \in attached
                 THEN Append(events, PathJoin(ConfDir, name)) ELSE events
    /\ nedits' = nedits + 1
    /\ UNCHANGED <<provider, constructed, getter, closed, panicked, hist, nops,
                   loaded, loadedFiles, dirEnvStage, concVars, walkVars,
                   watcher, legacyWatchedFiles, ran, passed, attached>>

\* the watcher's thread takes the notification and calls the callback of
\* StartWatching
CallbackEnter ==
    /\ pc["watch"] = "idle"
    /\ events # <<>>
    /\ ran' = [name |-> Head(events), done |-> FALSE, err |-> FALSE, reported |-> FALSE,
               settings |-> Nil, getterBefore |-> getter, getterAfter |-> getter]
    /\ events' = Tail(events)
    /\ Goto("watch", "callback")
    /\ UNCHANGED <<mainVars, mu, rd, newG, watchedFiles, nruns, walkVars,
                   watcher, legacyWatchedFiles, passed, attached>>

\* the callback: _ = c.provider.ReadInConfig().  The error is discarded, the
\* getter is not touched and no lock is taken.
CallbackReadInConfig ==
    LET r == ReadInConfig(provider, files)
    IN  /\ pc["watch"] = "callback"
        /\ provider' = r.p
        /\ ran' = [ran EXCEPT !.done = TRUE, !.err = r.err, !.reported = FALSE,
                              !.settings = AllSettings(r.p), !.getterAfter = getter]
        /\ Goto("watch", "idle")
        /\ UNCHANGED <<files, constructed, getter, closed, panicked, hist, nops,
                       nedits, loaded, loadedFiles, dirEnvStage,
                       mu, rd, newG, watchedFiles, nruns, walkVars,
                       watcher, legacyWatchedFiles, events, passed, attached>>

\* cfg.Get(key, typ) by the application, with what the watcher's thread did
\* last and the settings the provider holds at the call
HotGet(key, typ) ==
    /\ nops < MaxOps
    /\ tOut' = [fn |-> "Get", key |-> key, typ |-> typ,
                res |-> ConfigGet(key, typ), ran |-> ran,
                settings |-> AllSettings(provider)]
    /\ nops' = nops + 1
    /\ UNCHANGED <<files, provider, constructed, getter, closed, panicked, hist,
                   nedits, loaded, loadedFiles, dirEnvStage, concVars, tIn, watchVars>>

NextHot ==
    \/ \E filePath \in WatchPaths : StartWatching(filePath)
    \/ \E name \in WatchNames : \E content \in WritesOf(name) : HotWriteFile(name, content)
    \/ CallbackEnter
    \/ CallbackReadInConfig
    \/ ReloadReadInConfig
    \/ ReloadNewGetter
    \/ ReloadStoreGetter
    \/ \E c \in GetCalls : HotGet(c.key, c.typ)

SpecHot == InitConc /\ [][NextHot]_vars

\* ------------------------------------------------------------------------
\* The legacy event goroutine statement by statement, with StopWatching
\* called while it handles an event
\* ------------------------------------------------------------------------

\* the goroutine, blocked in the select on c.watcher.Events, receives a Write
\* event
TakeEvent ==
    /\ pc["watch"] = "idle"
    /\ watcher # NoWatcher
    /\ events # <<>>
    /\ ran' = [name |-> Head(events), reloaded |-> FALSE, settings |-> provider.config,
               called |-> watcher.callback, passedFor |-> PassedFor(Head(events))]
    /\ events' = Tail(events)
    /\ Goto("watch", "handle")
    /\ UNCHANGED <<mainVars, mu, rd, newG, watchedFiles, nruns, walkVars,
                   watcher, legacyWatchedFiles, passed, attached>>

\* the goroutine calls ReloadConfig(event.Name) and the callback, and goes
\* round the loop: the select evaluates c.watcher.Events again.  The field
\* c.watcher is read without watchMutex; when StopWatching has set it to nil
\* meanwhile the goroutine either reads nil and panics on the dereference or
\* reads the watcher that was closed and returns on its closed channel.
HandleAndLoop ==
    LET r == ReloadConfig(provider, files, ran.name)
    IN  /\ pc["watch"] = "handle"
        /\ provider' = r.p
        /\ ran' = [ran EXCEPT !.reloaded = ~r.err, !.settings = r.p.config]
        /\ IF watcher # NoWatcher
           THEN Goto("watch", "idle") /\ panicked' = panicked
           ELSE \/ Goto("watch", "crashed") /\ panicked' = TRUE
                \/ Goto("watch", "idle") /\ panicked' = panicked
        /\ UNCHANGED <<files, constructed, getter, closed, hist, nops,
                       nedits, loaded, loadedFiles, dirEnvStage,
                       mu, rd, newG, watchedFiles, nruns, walkVars,
                       watcher, legacyWatchedFiles, events, passed, attached>>

NextStop ==
    \/ \E configFile \in WatchPaths, callback \in Callbacks \cup {NoCallback} :
          WatchConfigWithCallback(configFile, callback)
    \/ StopWatching
    \/ \E name \in WatchNames : \E content \in EditsOf(name) \ {Absent} :
          WriteFile(name, content)
    \/ TakeEvent
    \/ HandleAndLoop

SpecStop == InitWatch /\ [][NextStop]_vars

\* ------------------------------------------------------------------------
\* Config.ReloadConfig of the legacy Config as a call: a configuration holding
\* tIn.base, with tIn.over set on top of it, and a file holding tIn.incoming
\* ------------------------------------------------------------------------

\* the override layers of the calls: nothing set, or Set("n", 7)
ReloadOverrides == { EmptyMap, MapV(<<"n">> :> IntV(7)) }

\* the keys read before and after the reload
ReloadKeys ==
    { <<"n">>, <<"m">>, <<"n", ".", "p">>, <<"n", ".", "q">>,
      <<"n", ".", "0">>, <<"n", ".", "1">>, <<"m", ".", "n">> }

InitReload ==
    /\ files = InitialFs
    /\ provider = NewConfigProvider
    /\ constructed = FALSE
    /\ getter = NoGetter
    /\ closed = FALSE
    /\ panicked = FALSE
    /\ hist = <<>>
    /\ nops = 0
    /\ nedits = 0
    /\ loaded = {}
    /\ loadedFiles = {}
    /\ dirEnvStage = 0
    /\ ConcIdle
    /\ WatchIdle
    /\ tIn \in [base : MergeTrees, over : ReloadOverrides,
                incoming : MergeTrees \cup {Invalid, Absent}]
    /\ tOut = NoWalk

\* config.ReloadConfig(d/a.yaml)
CallReloadConfig ==
    /\ tOut = NoWalk
    /\ LET p == [ProviderHolding(tIn.base) EXCEPT !.override = tIn.over]
           r == ReloadConfig(p, FileA :> tIn.incoming, PathJoin(ConfDir, FileA))
       IN  tOut' = [fn |-> "ReloadConfig", err |-> r.err, before |-> p, after |-> r.p]
    /\ UNCHANGED <<mainVars, concVars, watchVars, tIn>>

NextReload == CallReloadConfig

SpecReload == InitReload /\ [][NextReload]_vars

\* ------------------------------------------------------------------------
\* Notions the properties are stated with
\* ------------------------------------------------------------------------
IsTree(c) == c # Absent /\ c # Invalid

\* the KeyType that matches a value
TypeOf(x) ==
    IF x.t = "int" THEN "int" ELSE IF x.t = "str" THEN "string"
    ELSE IF x.t = "bool" THEN "bool" ELSE IF x.t = "map" THEN "map" ELSE "[]string"

\* what a getter built from the provider now would resolve a key to
ResolveNow(key) == Resolve(NewGetter(AllSettings(provider)), key)

\* the keys of a file content, as the provider holds them: the lower-cased
\* paths of its leaves, and the value at such a path
LeafKeys(content) == FlattenKeys(InsensitiviseMap(content))
LeafValue(content, path) == SearchMap(InsensitiviseMap(content), path)

\* the base name of a file: the name without its extension
BaseName(name) == SubSeq(name, 1, Len(name) - Len(Ext(name)))

\* the files of ConfDir a directory load reads
SupportedFiles == { f \in DOMAIN files : files[f] # Absent /\ IsSupportedConfigFile(f) }

NotFound == [val |-> Nil, err |-> "ErrKeyNotFound"]

\* ------------------------------------------------------------------------
\* C1: a key that was never set or loaded into the provider is absent from
\* the read surface: Has is false for it and Get fails with ErrKeyNotFound
\* and a nil value, whatever the KeyType.
\* ------------------------------------------------------------------------
C1_NeverLoadedKeyNotFound ==
    constructed =>
        \A k \in ProbeKeys :
            ProbeLower[k] \notin loaded =>
                /\ ~ConfigHas(k)
                /\ \A typ \in KeyTypes : ConfigGet(k, typ) = NotFound

\* a snapshot that holds some keys and lacks a key that was never loaded
C1_Witness ==
    /\ constructed
    /\ ConfigHas(<<"n">>)
    /\ <<"z">> \notin loaded /\ <<"s",".","h">> \notin loaded
    /\ ~ConfigHas(<<"s",".","h">>)

\* ------------------------------------------------------------------------
\* C2: round trip of a programmatic override.  Right after Set(k, v) and
\* then Reload() (or New), Has(k) is true and Get(k, T) returns v, T the
\* type of v.  Stated for the values that are not maps, whose round trip
\* does not depend on what else is stored under the key.
\* ------------------------------------------------------------------------
C2_SetThenReloadRoundTrip ==
    (/\ Len(hist) = 2
     /\ hist[1].op = "Set" /\ ~IsMap(hist[1].val)
     /\ hist[2].op \in {"Reload", "New"})
    => /\ ConfigHas(hist[1].arg)
       /\ ConfigGet(hist[1].arg, TypeOf(hist[1].val)) = [val |-> hist[1].val, err |-> "nil"]

\* ------------------------------------------------------------------------
\* C3: later-wins merge with preservation.  After LoadFromFile(A) and then
\* LoadFromFile(B) into a provider without overrides, every key of B
\* resolves to B's value and every key of A that B does not define still
\* resolves to A's value.
\* ------------------------------------------------------------------------
C3_LaterWinsAndPreserves ==
    (/\ Len(hist) = 2
     /\ hist[1].op = "LoadFromFile" /\ ~hist[1].err
     /\ hist[2].op = "LoadFromFile" /\ ~hist[2].err
     /\ provider.override = EmptyMap)
    => /\ \A k \in LeafKeys(hist[2].val) :
             ResolveNow(Join(k, ".")) = LeafValue(hist[2].val, k)
       /\ \A k \in LeafKeys(hist[1].val) \ LeafKeys(hist[2].val) :
             ResolveNow(Join(k, ".")) = LeafValue(hist[1].val, k)

\* ------------------------------------------------------------------------
\* C4: a directory load namespaces every file by its base name.  After a
\* successful LoadFromDirectory into a provider without overrides, every key
\* k of every supported file f resolves as base(f).k.
\* ------------------------------------------------------------------------
C4_DirectoryLoadNamespaces ==
    (/\ Len(hist) > 0
     /\ Last(hist).op = "LoadFromDirectory" /\ ~Last(hist).err
     /\ provider.override = EmptyMap)
    => \A f \in SupportedFiles : \A k \in LeafKeys(files[f]) :
          ResolveNow(BaseName(f) \o <<".">> \o Join(k, ".")) = LeafValue(files[f], k)

\* ------------------------------------------------------------------------
\* C5: after LoadFromDirectory, LoadFromEnv and a successful Reload, made
\* one right after the other, every key of every file of the directory is
\* resolvable through the read surface (under its own name or under the
\* file's namespace), and so is every key loaded from the environment.
\* ------------------------------------------------------------------------
C5_ReloadKeepsDirectoryKeys ==
    dirEnvStage = 3 =>
        /\ \A f \in SupportedFiles : \A k \in LeafKeys(files[f]) :
              \/ ConfigHas(Join(k, "."))
              \/ ConfigHas(BaseName(f) \o <<".">> \o Join(k, "."))
        /\ \A i \in 1..Len(Environ) :
              LET e == Environ[i]
                  prefix == hist[1].arg
              IN  (prefix = <<>> \/ HasPrefix(e.name, prefix \o <<"_">>))
                  => ConfigHas(EnvKey(e.name, prefix))

\* ------------------------------------------------------------------------
\* C6: after an external edit of a loaded config file and a Reload that
\* returns nil, Get of every key the edit changed (and no override hides)
\* returns the value of the new content.
\* ------------------------------------------------------------------------
C6_ReloadReflectsEdit ==
    (/\ Len(hist) = 2
     /\ hist[1].op = "Edit" /\ hist[1].arg \in loadedFiles
     /\ IsTree(hist[1].val) /\ IsTree(hist[1].old)
     /\ hist[2].op = "Reload" /\ ~hist[2].err)
    => \A k \in LeafKeys(hist[1].val) :
          (/\ LeafValue(hist[1].val, k) # LeafValue(hist[1].old, k)
           /\ SearchMap(provider.override, k) = Nil
           /\ ~IsPathShadowedInDeepMap(k, provider.override))
          => ConfigGet(Join(k, "."), TypeOf(LeafValue(hist[1].val, k)))
                = [val |-> LeafValue(hist[1].val, k), err |-> "nil"]

\* ------------------------------------------------------------------------
\* C7: the read of Config.getter by Get or Has and the replacement of it by
\* Reload are synchronized: whenever one goroutine is about to read the
\* field and another is about to assign it, one of the two holds Config.mu.
\* ------------------------------------------------------------------------
C7_GetterAccessSynchronized ==
    (pc["get"] = "load" /\ pc["reload"] = "store")
    => mu \in {"get", "reload"}

\* ------------------------------------------------------------------------
\* C8: a Reload that returns an error leaves the getter snapshot as it was,
\* and from New on there is always a snapshot.
\* ------------------------------------------------------------------------
C8_FailedReloadKeepsSnapshot ==
    [][ (/\ nops' = nops + 1
         /\ Last(hist').op = "Reload" /\ Last(hist').err)
        => (/\ getter' = getter
            /\ getter' # NoGetter
            /\ \A k \in ProbeKeys : ConfigHas(k)' = ConfigHas(k)) ]_vars

\* a failed Reload at a moment when the provider holds settings the snapshot
\* does not
C8_Witness ==
    /\ Len(hist) > 0
    /\ Last(hist).op = "Reload" /\ Last(hist).err
    /\ getter # NoGetter
    /\ NewGetter(AllSettings(provider)) # getter

\* ------------------------------------------------------------------------
\* C9: Closed is terminal.  Every Reload called after Close has returned
\* fails with an error.
\* ------------------------------------------------------------------------
C9_ReloadAfterCloseFails ==
    (/\ Len(hist) > 0
     /\ Last(hist).op = "Reload"
     /\ Last(hist).val = StrV(<<"closed">>))
    => Last(hist).err

\* ------------------------------------------------------------------------
\* C10: resolving through a sequence by index.  When the path up to its last
\* segment reaches a sequence of length n, the whole path resolves to the
\* i-th element if the last segment is a number i with 0 <= i < n, and to
\* nil (not found) if it is out of range, negative or not a number; no walk
\* ever panics.
\* ------------------------------------------------------------------------
WalkParts == Split(tIn.path, ".")
WalkPrefix == Join(SubSeq(WalkParts, 1, Len(WalkParts) - 1), ".")
WalkLast == WalkParts[Len(WalkParts)]

\* the values the path up to its last segment can reach, for the function
\* that was called
WalkParents ==
    IF tOut.fn = "traverseNestedMap"
    THEN {traverseNestedMap(tIn.settings, WalkPrefix)}
    ELSE traverseNestedMapCaseInsensitive(tIn.settings, WalkPrefix)

\* the element of a sequence a segment names, Nil if it names none
ElementAt(sequence, seg) ==
    IF \E i \in 0..(Len(sequence.v) - 1) : Atoi(seg) = [ok |-> TRUE, n |-> i]
    THEN sequence.v[Atoi(seg).n + 1]
    ELSE Nil

C10_SequenceIndexResolution ==
    (tOut # NoWalk) =>
        /\ tOut.res # Panic
        /\ (Len(WalkParts) > 1 /\ \A parent \in WalkParents : IsSeq(parent))
           => tOut.res \in { ElementAt(parent, WalkLast) : parent \in WalkParents }

\* a walk that has indexed a sequence of three with a segment out of its range
C10_Witness ==
    /\ tOut # NoWalk
    /\ tIn.settings = ContentB1 /\ tIn.path = <<"l",".","5">>
    /\ WalkParents = {SeqV(<<IntV(10), IntV(20), IntV(30)>>)}
    /\ tOut.res = Nil

\* ------------------------------------------------------------------------
\* C11: type coercion on Get.  For a key whose stored value is a string of
\* decimal digits, Get(key, Int) returns the integer the digits write and no
\* error; for a key whose stored value is a string with a character that is
\* not a digit, Get(key, Int) fails with ErrWrongType and a nil value.
\* ------------------------------------------------------------------------
IsDigits(s) == Len(s) > 0 /\ \A i \in 1..Len(s) : s[i] \in {Digits[j] : j \in 1..Len(Digits)}

C11_IntCoercionOfStrings ==
    (/\ tOut # NoWalk /\ tOut.fn = "Get"
     /\ tIn.typ = "int" /\ tIn.value.t = "str"
     /\ ToLower(tIn.key) = ToLower(tIn.stored))
    => IF IsDigits(tIn.value.v)
       THEN tOut.res = [val |-> IntV(DecVal(tIn.value.v)), err |-> "nil"]
       ELSE tOut.res = [val |-> Nil, err |-> "ErrWrongType"]

\* Get(key, Int) has returned 420 for the stored string "420"
C11_Witness ==
    /\ tOut # NoWalk /\ tOut.fn = "Get"
    /\ tIn.typ = "int" /\ tIn.value = StrV(<<"4","2","0">>)
    /\ tIn.key = tIn.stored
    /\ tOut.res = [val |-> IntV(420), err |-> "nil"]

\* ------------------------------------------------------------------------
\* C12: environment load.  With prefix P a variable P_A_B=v is readable as
\* the string v under the key a.b (prefix stripped, "_" to ".", lower-cased)
\* and as an integer when v is a number; a variable that does not carry the
\* prefix is not visible under any key; with the empty prefix every variable
\* is loaded.  Stated for the variables whose key neither extends nor is
\* extended by the key of another loaded variable.
\* ------------------------------------------------------------------------
CarriesPrefix(e, prefix) == prefix = <<>> \/ HasPrefix(e.name, prefix \o <<"_">>)

\* the variables of the environment that carry the prefix
LoadedEnv == { tIn.environ[i] : i \in { j \in 1..Len(tIn.environ) :
                                        CarriesPrefix(tIn.environ[j], tIn.prefix) } }

\* the key the variable is expected under: its name without the prefix and
\* the "_" after it, lower-cased, the parts between "_" joined by "."
ExpectedEnvKey(e, prefix) ==
    LET parts == Split(ToLower(e.name), "_")
    IN  Join(IF prefix = <<>> THEN parts ELSE Tail(parts), ".")

KeysClash(k1, k2) ==
    k1 # k2 /\ (HasPrefix(k1, k2 \o <<".">>) \/ HasPrefix(k2, k1 \o <<".">>))

RECURSIVE FilesInOrder(_, _, _)
FilesInOrder(dirv, names, dir) ==
    IF Len(names) = 0 THEN <<>>
    ELSE LET e == dirv.v[names[1]]
             path == PathJoin(dir, names[1])
         IN  (IF IsDir(e) THEN FilesInOrder(e, SortedNames(DOMAIN e.v), path)
              ELSE IF Ext(names[1]) \in SupportedConfigExts
              THEN << [path |-> path, content |-> e] >>
              ELSE <<>>)
             \o FilesInOrder(dirv, Tail(names), dir)

FileFails(f) == f.content = Invalid
PathsOf(fs) == [i \in 1..Len(fs) |-> fs[i].path]

\* the namespace of a file: its path below ConfDir without the extension,
\* "." for "/"
NamespaceOf(path) ==
    LET rel == SubSeq(path, Len(ConfDir) + 2, Len(path) - Len(Ext(path)))
    IN  [i \in 1..Len(rel) |-> IF rel[i] = "/" THEN "." ELSE rel[i]]

IsLoadedInto(p, f) ==
    /\ NamespaceOf(f.path) \in DOMAIN p.config.v
    /\ \A k \in LeafKeys(f.content) :
          SearchMap(p.config.v[NamespaceOf(f.path)], k) = LeafValue(f.content, k)

C13_DirectoryErrorPolicies ==
    (/\ tOut # NoWalk /\ tOut.fn = "LoadFromDirectoryWithOptions"
     /\ tIn.dirv # Absent)
    => LET order == FilesInOrder(tIn.dirv, SortedNames(DOMAIN tIn.dirv.v), ConfDir)
           fails == SelectSeq(order, FileFails)
           first == CHOOSE i \in 1..Len(order) :
                        FileFails(order[i]) /\ \A j \in 1..(i-1) : ~FileFails(order[j])
       IN  IF tIn.continueOnError
           THEN /\ tOut.res.errors = PathsOf(fails)
                /\ tOut.res.visited = PathsOf(order)
                /\ \A i \in 1..Len(order) :
                      ~FileFails(order[i]) => IsLoadedInto(tOut.res.p, order[i])
           ELSE IF Len(fails) = 0
           THEN tOut.res.errors = <<>> /\ tOut.res.visited = PathsOf(order)
           ELSE /\ tOut.res.errors = << order[first].path >>
                /\ tOut.res.visited = PathsOf(SubSeq(order, 1, first))

\* a best-effort load of a directory where a.yaml and s/x.yaml fail and
\* b.json and t.yml parse: two errors, and both good files are loaded
C13_Witness ==
    /\ tOut # NoWalk /\ tOut.fn = "LoadFromDirectoryWithOptions"
    /\ tIn.continueOnError /\ tIn.dirv # Absent
    /\ Len(tOut.res.errors) = 2
    /\ tOut.res.errors[1] = PathJoin(ConfDir, FileA)
    /\ tOut.res.errors[2] = PathJoin(PathJoin(ConfDir, SubDir), FileX)
    /\ SearchMap(tOut.res.p.config, << <<"b">>, <<"s">>, <<"h">> >>) = StrV(<<"z">>)
    /\ SearchMap(tOut.res.p.config, << <<"t">>, <<"u">> >>) = IntV(2)

\* ------------------------------------------------------------------------
\* C14: a directory load visits the files in lexical file-name order, passes
\* over every entry whose extension is not .yaml, .yml or .json (no key is
\* made for it and no error is returned for it), and returns nil and leaves
\* the provider as it was when the directory holds no supported file.
\* Stated for Loader.LoadFromDirectory and for the legacy
\* LoadFromDirectoryWithOptions.
\* ------------------------------------------------------------------------
DirOf(path) ==
    SubSeq(path, 1, (CHOOSE i \in 1..Len(path) :
                        path[i] = "/" /\ \A j \in (i+1)..Len(path) : path[j] # "/") - 1)

IsSupportedPath(path) == Ext(path) \in SupportedConfigExts

\* the supported regular files of the directory itself, in name order
TopFiles == SelectSeq(SortedNames(DOMAIN RegularFiles(tIn.dirv)), IsSupportedPath)
TopFails == SelectSeq(TopFiles, LAMBDA n : tIn.dirv.v[n] = Invalid)

C14_OrderSkipAndEmpty ==
    (tOut # NoWalk /\ tIn.dirv # Absent) =>
      /\ tOut.fn = "LoadFromDirectoryWithOptions" =>
           LET r == tOut.res
           IN  /\ \A i, j \in 1..Len(r.visited) :
                     (i < j /\ DirOf(r.visited[i]) = DirOf(r.visited[j]))
                     => StrLess(r.visited[i], r.visited[j])
               /\ \A i \in 1..Len(r.visited) : IsSupportedPath(r.visited[i])
               /\ \A i \in 1..Len(r.errors) : IsSupportedPath(r.errors[i])
               /\ BaseNameOf(FileC) \notin DOMAIN r.p.config.v
               /\ FilesInOrder(tIn.dirv, SortedNames(DOMAIN tIn.dirv.v), ConfDir) = <<>>
                  => r.errors = <<>> /\ r.p = NewConfigProvider
      /\ (tOut.fn = "LoadFromDirectory" /\ tIn.hasProvider) =>
           LET r == tOut.res
           IN  /\ (r.err = NoError /\ Len(TopFiles) > 0)
                  => r.p.configFile = PathJoin(ConfDir, TopFiles[1])
               /\ IF Len(TopFails) = 0 THEN r.err = NoError
                  ELSE PathJoin(ConfDir, TopFails[1]) \in r.err.paths
               /\ \A path \in r.err.paths : IsSupportedPath(path)
               /\ BaseNameOf(FileC) \notin DOMAIN r.p.config.v
               /\ <<"r">> \notin DOMAIN r.p.config.v
               /\ Len(TopFiles) = 0 => r.err = NoError /\ r.p = NewConfigProvider

\* Loader.LoadFromDirectory has returned nil on a directory that holds
\* a.yaml, b.json, t.yml, the text file c.txt and a subdirectory
C14_Witness ==
    /\ tOut # NoWalk /\ tOut.fn = "LoadFromDirectory" /\ tIn.hasProvider
    /\ tIn.dirv # Absent
    /\ DOMAIN tIn.dirv.v = {FileA, FileB, FileC, FileT, SubDir}
    /\ tIn.dirv.v[FileC] = ContentC1
    /\ tOut.res.err = NoError
    /\ tOut.res.p.configFile = PathJoin(ConfDir, FileA)
    /\ <<"u">> \in DOMAIN tOut.res.p.config.v

\* ------------------------------------------------------------------------
\* C15: loader errors reach the caller.  LoadFromFile and LoadFromDirectory
\* on a Loader without a provider fail with ErrBackendProviderHasNoConfig
\* before the file system is looked at; a directory that cannot be read
\* fails with an error that wraps ErrFailedReadDirectory; a file that cannot
\* be read or parsed fails with an error that wraps the cause and names the
\* path of the file.
\* ------------------------------------------------------------------------
C15_LoaderErrorsNameThePath ==
    (tOut # NoWalk /\ tOut.fn \in {"LoadFromFile", "LoadFromDirectory"}) =>
      LET r == tOut.res
      IN  /\ ~tIn.hasProvider =>
                r.err.sentinel = "ErrBackendProviderHasNoConfig" /\ ~r.touched
          /\ (tIn.hasProvider /\ tOut.fn = "LoadFromDirectory" /\ tIn.dirv = Absent)
             => r.err.sentinel = "ErrFailedReadDirectory"
          /\ (tIn.hasProvider /\ tOut.fn = "LoadFromDirectory" /\ tIn.dirv # Absent
                /\ Len(TopFails) > 0)
             => /\ r.err.cause # "nil"
                /\ PathJoin(ConfDir, TopFails[1]) \in r.err.paths
          /\ (tIn.hasProvider /\ tOut.fn = "LoadFromFile"
                /\ IsSupportedPath(tOut.path)
                /\ FileContent(RegularFiles(tIn.dirv), tOut.path) \in {Absent, Invalid})
             => /\ r.err.cause # "nil"
                /\ tOut.path \in r.err.paths

\* ------------------------------------------------------------------------
\* C16: MustGetX(key) panics with "Configuration key not found: <key>"
\* exactly when the key does not exist, and for every key for which GetX(key)
\* resolves a value MustGetX(key) returns that value and does not panic.
\* ------------------------------------------------------------------------
C16_MustGetAgreesWithGet ==
    (tOut # NoWalk /\ tOut.fn \in {"MustGetString", "MustGetInt"}) =>
        LET p == LegacyConfigOf(tIn.stored, tIn.value)
            resolved == LegacyConfigGet(p, tIn.key)
        IN  /\ resolved = {Nil} => tOut.res = KeyNotFoundPanic(tIn.key)
            /\ Nil \notin resolved =>
                  tOut.res \in (IF tOut.fn = "MustGetString"
                                THEN GetString(p, tIn.key) ELSE GetInt(p, tIn.key))

\* ------------------------------------------------------------------------
\* C17: after a successful WatchConfigWithCallback(f, cb) with cb not nil, a
\* write to f reloads the configuration from f and then calls cb, the callback
\* passed for that file, for the second and later watch calls on the same
\* Config as for the first.
\* ------------------------------------------------------------------------
C17_WriteCallsTheCallbackOfTheFile ==
    (ran # Nil /\ ran.passedFor \ {NoCallback} # {}) =>
        /\ ran.reloaded
        /\ ran.called \in ran.passedFor \ {NoCallback}

\* ------------------------------------------------------------------------
\* C18: watching a path that does not exist fails with an error and leaves
\* the set of watched files as it was: the path is not recorded as watched,
\* and a later watch call for the same path is attempted again, not treated
\* as already watched.
\* ------------------------------------------------------------------------
C18_WatchOfMissingPathFails ==
    /\ \A path \in WatchPaths :
          ~CanAdd(files, path) =>
              /\ path \notin legacyWatchedFiles
              /\ path \notin attached
              /\ watcher # NoWatcher => path \notin watcher.paths
    /\ (tOut # NoWalk /\ tOut.fn \in {"WatchConfigWithCallback", "StartWatching"}) =>
          /\ ~tOut.existed => (tOut.err /\ tOut.after = tOut.before
                                /\ tOut.path \notin tOut.after)
          /\ (tOut.again /\ tOut.existed) =>
                (~tOut.err /\ (tOut.fn = "WatchConfigWithCallback" => tOut.path \in tOut.after))

C18_Witness ==
    /\ tOut # NoWalk
    /\ tOut.fn = "WatchConfigWithCallback"
    /\ tOut.again /\ ~tOut.existed /\ tOut.err
    /\ tOut.path \notin legacyWatchedFiles

\* ------------------------------------------------------------------------
\* C19: the merge rule.  For each key of the incoming tree, two mappings are
\* merged recursively; otherwise the incoming value replaces the base value
\* as a whole, a sequence included, and when a scalar meets a mapping in
\* either direction the incoming value wins and no error is returned.
\* ------------------------------------------------------------------------
RECURSIVE MergeRule(_, _)
MergeRule(base, incoming) ==
    MapV([k \in (DOMAIN base.v) \cup (DOMAIN incoming.v) |->
            IF k \notin DOMAIN incoming.v THEN base.v[k]
            ELSE IF k \in DOMAIN base.v /\ IsMap(base.v[k]) /\ IsMap(incoming.v[k])
            THEN MergeRule(base.v[k], incoming.v[k])
            ELSE incoming.v[k]])

C19_MergeRule ==
    tOut # NoWalk =>
        /\ ~tOut.err
        /\ tOut.res = MergeRule(tIn.base, tIn.incoming)

\* ------------------------------------------------------------------------
\* C20: the path resolver never raises.  For every tree and every
\* dot-separated path traverseNestedMap and traverseNestedMapCaseInsensitive
\* return a node of the tree or not found, and never panic; when the walk
\* stands on a scalar or on nil and segments remain the result is not found,
\* and a map key that is absent yields not found.
\* ------------------------------------------------------------------------

\* every node of a tree
RECURSIVE NodesOf(_)
NodesOf(tree) ==
    {tree} \cup
    (IF IsMap(tree) THEN UNION { NodesOf(tree.v[k]) : k \in DOMAIN tree.v }
     ELSE IF IsSeq(tree) THEN UNION { NodesOf(tree.v[i]) : i \in 1..Len(tree.v) }
     ELSE {})

\* the values the first k segments of the path can reach, for the function
\* that was called
WalkReach(k) ==
    IF tOut.fn = "traverseNestedMap"
    THEN {TraverseParts(tIn.settings, SubSeq(WalkParts, 1, k))}
    ELSE TraversePartsCaseInsensitive(tIn.settings, SubSeq(WalkParts, 1, k))

\* a value that cannot be walked into
IsLeaf(x) == ~IsMap(x) /\ ~IsSeq(x)

\* the segment names no key of the map, for the function that was called
KeyAbsent(m, seg) ==
    IF tOut.fn = "traverseNestedMap" THEN seg \notin DOMAIN m.v
    ELSE \A k \in DOMAIN m.v : ToLower(k) # ToLower(seg)

C20_ResolverNeverRaises ==
    (tOut # NoWalk) =>
        /\ tOut.res # Panic
        /\ tOut.res \in NodesOf(tIn.settings) \cup {Nil}
        /\ \A k \in 0..(Len(WalkParts) - 1) :
              /\ (\A x \in WalkReach(k) : IsLeaf(x)) => tOut.res = Nil
              /\ (\A x \in WalkReach(k) : IsMap(x) /\ KeyAbsent(x, WalkParts[k + 1]))
                 => tOut.res = Nil

\* a walk that stood on a string with a segment left, one that stood on nil
\* with a segment left, or one that asked a map for a key it does not hold
C20_Witness ==
    /\ tOut # NoWalk
    /\ tOut.res = Nil
    /\ \/ /\ tIn.settings = ContentB1 /\ tIn.path = <<"n",".","0",".","1">>
          /\ WalkReach(1) = {StrV(<<"w">>)}
       \/ /\ tIn.settings = WalkSettingsNested
          /\ tIn.path = <<"m",".","L",".","2",".","k">>
          /\ WalkReach(3) = {Nil}

\* ------------------------------------------------------------------------
\* C21: case-insensitive key fallback.  At a mapping the segment is looked up
\* exactly first and ignoring case only when no key matches exactly; so in a
\* tree without keys that collide ignoring case every case variant of a
\* resolvable path resolves to the value of the stored path, at every depth,
\* in mappings nested inside sequences too.
\* ------------------------------------------------------------------------

\* no two keys of one mapping of the tree are equal ignoring case
RECURSIVE NoCaseCollision(_)
NoCaseCollision(tree) ==
    IF IsMap(tree)
    THEN /\ \A k1, k2 \in DOMAIN tree.v : ToLower(k1) = ToLower(k2) => k1 = k2
         /\ \A k \in DOMAIN tree.v : NoCaseCollision(tree.v[k])
    ELSE IF IsSeq(tree) THEN \A i \in 1..Len(tree.v) : NoCaseCollision(tree.v[i])
    ELSE TRUE

C21_CaseVariantsResolveAlike ==
    (tOut # NoWalk /\ NoCaseCollision(tIn.tree) /\ Nil \notin tOut.stored) =>
        /\ tOut.res # Nil
        /\ tOut.stored = {tOut.res}

\* the stored path Ap.rL.0.Id asked for in upper case, through a sequence
C21_Witness ==
    /\ tOut # NoWalk
    /\ tOut.fn = "Get"
    /\ tIn.path = <<"A","p",".","r","L",".","0",".","I","d">>
    /\ tIn.variant = <<"A","P",".","R","L",".","0",".","I","D">>
    /\ tOut.res = IntV(1)

\* ------------------------------------------------------------------------
\* C22: when the watcher calls the callback registered by StartWatching(f)
\* after f changed, the Config runs a full reload: the provider is re-read
\* and a new getter is installed, so a Get issued after the callback has
\* completed reflects the changed file without a call of Reload.
\* ------------------------------------------------------------------------
C22_CallbackInstallsNewGetter ==
    (/\ tOut # NoWalk /\ tOut.fn = "Get"
     /\ tOut.ran # Nil /\ tOut.ran.done /\ ~tOut.ran.err
     /\ tOut.settings = tOut.ran.settings)
    => tOut.res = GetterGet(NewGetter(tOut.ran.settings), tOut.key, tOut.typ)

\* ------------------------------------------------------------------------
\* C23: the error of a reload the watcher triggered is reported through an
\* error sink or a log, never dropped, and the configuration visible before
\* the failed reload stays in effect.
\* ------------------------------------------------------------------------
C23_WatcherReloadErrorIsReported ==
    (ran # Nil /\ ran.done /\ ran.err) =>
        /\ ran.reported
        /\ ran.getterAfter = ran.getterBefore

\* ------------------------------------------------------------------------
\* C24: reloads are serialized.  The reload run by the watcher's callback
\* thread and a Reload called by the application are never inside their
\* sections at the same time: one holds the mutex until it is done.
\* ------------------------------------------------------------------------
C24_ReloadsSerialized ==
    (pc["watch"] = "callback" /\ pc["reload"] # "idle") => mu \in {"watch", "reload"}

\* ------------------------------------------------------------------------
\* C25: closing the watcher is safe in every interleaving with a reload the
\* watcher has in flight: the close does not wait for the reload, the thread
\* handling events does not crash on a watcher reference the close has
\* cleared, and a reload after the close does not revive the watcher.
\* ------------------------------------------------------------------------
C25_StopIsSafeWithReloadInFlight ==
    /\ pc["watch"] # "crashed"
    /\ (tOut # NoWalk /\ tOut.fn = "StopWatching" /\ pc["watch"] = "idle")
          => watcher = NoWatcher

C27_CloseIsIdempotent ==
    (Len(hist) > 0 /\ Last(hist).op = "Close") => (closed /\ ~panicked)

\* ------------------------------------------------------------------------
\* C28: bookkeeping of the legacy watch calls.  In every state WatchConfig,
\* WatchConfigWithCallback, StopWatchingFile and StopWatching can reach,
\* watchedFiles holds exactly the paths registered with the fsnotify watcher,
\* and a watchedFiles that is not empty implies a watcher that is not nil.
\* ------------------------------------------------------------------------
C28_WatchedFilesMatchTheWatcher ==
    /\ legacyWatchedFiles # {} => watcher # NoWatcher
    /\ { Clean(path) : path \in legacyWatchedFiles }
          = (IF watcher = NoWatcher THEN {} ELSE watcher.paths)

\* the key is defined by the file holding content: the file resolves the key,
\* or it gives the top-level key of a dotted key a value that is not a mapping
DefinedByFile(content, key) ==
    LET f == ProviderHolding(InsensitiviseMap(content))
    IN  \/ LegacyConfigGet(f, key) # {Nil}
        \/ /\ ContainsDot(key)
           /\ LegacyViperGet(f, TopLevelKey(key)) # Nil
           /\ ~IsMap(LegacyViperGet(f, TopLevelKey(key)))

C29_WitnessError ==
    /\ tOut # NoWalk /\ tOut.fn = "ReloadConfig" /\ tOut.err
    /\ tIn.incoming = Absent

\* the parts name, key by key and index by index, a place of the tree that
\* is stored and holds nil
RECURSIVE StoredNil(_, _)
StoredNil(current, parts) ==
    IF Len(parts) = 0 THEN FALSE
    ELSE LET held == IF IsMap(current)
                     THEN IF parts[1] \in DOMAIN current.v
                          THEN {current.v[parts[1]]} ELSE {}
                     ELSE IF IsSeq(current) /\ Atoi(parts[1]).ok
                             /\ Atoi(parts[1]).n >= 0
                             /\ Atoi(parts[1]).n < Len(current.v)
                     THEN {SliceIndex(current.v, Atoi(parts[1]).n)}
                     ELSE {}
         IN  \E x \in held : IF Len(parts) = 1 THEN x = Nil
                             ELSE StoredNil(x, Tail(parts))

\* ------------------------------------------------------------------------
\* C30: the resolver that ignores case extends the exact one.  Whenever
\* traverseNestedMap returns a value that is not nil,
\* traverseNestedMapCaseInsensitive returns the same value; and a key whose
\* stored value is nil is reported as not found by both, like an absent key.
\* ------------------------------------------------------------------------
C30_CaseInsensitiveExtendsExact ==
    tOut # NoWalk =>
        /\ (/\ tOut.fn = "traverseNestedMapCaseInsensitive"
            /\ traverseNestedMap(tIn.settings, tIn.path) # Nil)
              => tOut.res = traverseNestedMap(tIn.settings, tIn.path)
        /\ StoredNil(tIn.settings, Split(tIn.path, ".")) => tOut.res = Nil

\* the walk that ignores case made with the exact spelling of one of two
\* keys that differ in case only
C30_Witness ==
    /\ tOut # NoWalk /\ tOut.fn = "traverseNestedMapCaseInsensitive"
    /\ tIn.settings = WalkSettingsFolded
    /\ tIn.path = <<"A", "b", ".", "1">>
    /\ tOut.res = IntV(2)

\* the walk that ignores case made to a key that holds nil, next to a key
\* of another case that holds a value
C30_WitnessNil ==
    /\ tOut # NoWalk /\ tOut.fn = "traverseNestedMapCaseInsensitive"
    /\ tIn.settings = WalkSettingsNil
    /\ tIn.path = <<"K", "n">>
    /\ tOut.res = Nil

====
